---------------------------- MODULE Spec2Model ----------------------------
(***************************************************************************)
(* A model of the garmin-training-plan repository: the unit converters,    *)
(* the target-zone resolver and the step compiler of                       *)
(* garmin_workout_builder.py (WorkoutBuilder), and the schedule calculator *)
(* and batch operations of sync_garmin.py (GarminTrainingPlanSync).        *)
(*                                                                         *)
(* Python strings are sequences of one-character strings, so that strip,   *)
(* lower, split, replace, float() and int() are modelled by what they do.  *)
(* Python numbers are exact rationals [n, d] (d > 0, lowest terms).        *)
(* A call either returns, Ok(v), or raises, Err(e).                        *)
(***************************************************************************)
EXTENDS Integers, Sequences, FiniteSets, TLC

VARIABLES
    op,        \* pure-function specifications: the function last applied
    arg,       \* ... its argument(s)
    ret,       \* ... what it returned or raised
    plan,      \* sync: self.plan_data
    remote,    \* sync: the workouts held by the remote service
    pc,        \* sync: where the running batch operation stands
    cur,       \* sync: the loop position and the local counters of the operation
    calls      \* sync: the remote calls made so far, in order

vars == <<op, arg, ret, plan, remote, pc, cur, calls>>

(***************************************************************************)
(* Results of calls                                                        *)
(***************************************************************************)
Ok(v) == [ok |-> TRUE, v |-> v]
Err(e) == [ok |-> FALSE, err |-> e]

\* the exceptions the code can raise, and the result of a call not yet made
ValueError == Err("ValueError")
AttributeError == Err("AttributeError")
IndexError == Err("IndexError")
KeyError == Err("KeyError")
TypeError == Err("TypeError")
ZeroDivisionError == Err("ZeroDivisionError")
Pending == Err("pending")

(***************************************************************************)
(* Bind(e, LAMBDA x : body) is body with x standing for the value of e,    *)
(* computed once: Python's  x = e; body                                    *)
(***************************************************************************)
TheOne(S) == CHOOSE x \in S : TRUE

Bind(e, Body(_)) == TheOne({Body(x) : x \in {e}})

(***************************************************************************)
(* Python values read from the plan: a string or a number                  *)
(***************************************************************************)
Chars(s) == [i \in 1..Len(s) |-> SubSeq(s, i, i)]
Str(s) == [k |-> "str", s |-> Chars(s)]

(***************************************************************************)
(* Exact rationals                                                         *)
(***************************************************************************)
Abs(a) == IF a < 0 THEN -a ELSE a

RECURSIVE GCD(_, _)
GCD(a, b) == IF b = 0 THEN a ELSE GCD(b, a % b)

Rat(n, d) ==
    LET g == GCD(Abs(n), d)
    IN  IF n = 0 THEN [n |-> 0, d |-> 1] ELSE [n |-> n \div g, d |-> d \div g]

RI(n) == [n |-> n, d |-> 1]
Num(n, d) == [k |-> "num", v |-> Rat(n, d)]

RMul(x, y) ==
    LET g1 == GCD(Abs(x.n), y.d)
        g2 == GCD(Abs(y.n), x.d)
        a == IF x.n = 0 THEN 0 ELSE x.n \div g1
        b == IF y.n = 0 THEN 0 ELSE y.n \div g2
        c == IF x.n = 0 THEN 1 ELSE y.d \div g1
        e == IF y.n = 0 THEN 1 ELSE x.d \div g2
    IN  Rat(a * b, c * e)

RDivInt(x, k) == LET g == GCD(Abs(x.n), k) IN Rat(x.n \div g, x.d * (k \div g))

\* x < y for non-negative rationals, without a product that overflows
RLess(x, y) ==
    LET q == RMul(x, [n |-> y.d, d |-> IF y.n = 0 THEN 1 ELSE y.n])
    IN  IF y.n = 0 THEN FALSE ELSE q.n < q.d

\* int(x): truncation toward zero
RInt(x) == IF x.n >= 0 THEN x.n \div x.d ELSE -((-x.n) \div x.d)

(***************************************************************************)
(* Python string methods                                                   *)
(***************************************************************************)
IsSpace(c) == c = " "

RECURSIVE LStrip(_)
LStrip(s) == IF s # <<>> /\ IsSpace(Head(s)) THEN LStrip(Tail(s)) ELSE s

RECURSIVE RStrip(_)
RStrip(s) ==
    IF s # <<>> /\ IsSpace(s[Len(s)]) THEN RStrip(SubSeq(s, 1, Len(s) - 1)) ELSE s

Strip(s) == RStrip(LStrip(s))

\* str.lower(), over the letters the inputs use
Lower(s) ==
    LET LowerChar(c) ==
            CASE c = "M" -> "m" [] c = "I" -> "i" [] c = "N" -> "n" [] c = "S" -> "s"
              [] c = "E" -> "e" [] c = "C" -> "c" [] c = "F" -> "f" [] c = "U" -> "u"
              [] c = "D" -> "d" [] c = "A" -> "a" [] c = "Y" -> "y" [] c = "O" -> "o"
              [] c = "T" -> "t" [] c = "W" -> "w" [] c = "H" -> "h" [] c = "R" -> "r"
              [] OTHER -> c
    IN  [i \in 1..Len(s) |-> LowerChar(s[i])]

\* str.capitalize(): first character upper-cased, the rest lower-cased
Capitalize(s) ==
    LET UpperChar(c) ==
            CASE c = "m" -> "M" [] c = "t" -> "T" [] c = "w" -> "W" [] c = "f" -> "F"
              [] c = "s" -> "S" [] c = "x" -> "X"
              [] OTHER -> c
    IN  IF s = <<>> THEN s ELSE <<UpperChar(Head(s))>> \o Lower(Tail(s))

\* sub in s
Contains(s, sub) ==
    \E i \in 1..(Len(s) - Len(sub) + 1) : SubSeq(s, i, i + Len(sub) - 1) = sub

\* the index of the first occurrence of sub in s (sub occurs in s)
Find(s, sub) ==
    CHOOSE i \in 1..(Len(s) - Len(sub) + 1) :
        /\ SubSeq(s, i, i + Len(sub) - 1) = sub
        /\ \A j \in 1..(i - 1) : SubSeq(s, j, j + Len(sub) - 1) # sub

\* s.split(c) for a one-character separator
RECURSIVE Split(_, _)
Split(s, c) ==
    IF ~Contains(s, <<c>>) THEN <<s>>
    ELSE LET i == Find(s, <<c>>)
         IN  <<SubSeq(s, 1, i - 1)>> \o Split(SubSeq(s, i + 1, Len(s)), c)

\* s.replace(sub, '')
RECURSIVE Remove(_, _)
Remove(s, sub) ==
    IF ~Contains(s, sub) THEN s
    ELSE LET i == Find(s, sub)
         IN  SubSeq(s, 1, i - 1) \o Remove(SubSeq(s, i + Len(sub), Len(s)), sub)

(***************************************************************************)
(* float(str) and int(str): optional sign, decimal digits, one optional    *)
(* point; anything else raises ValueError                                  *)
(***************************************************************************)
Digits == {"0", "1", "2", "3", "4", "5", "6", "7", "8", "9"}

DigitVal(c) ==
    CASE c = "0" -> 0 [] c = "1" -> 1 [] c = "2" -> 2 [] c = "3" -> 3 [] c = "4" -> 4
      [] c = "5" -> 5 [] c = "6" -> 6 [] c = "7" -> 7 [] c = "8" -> 8 [] c = "9" -> 9

AllDigits(s) == \A i \in 1..Len(s) : s[i] \in Digits

RECURSIVE DecVal(_)
DecVal(s) == IF s = <<>> THEN 0 ELSE 10 * DecVal(SubSeq(s, 1, Len(s) - 1)) + DigitVal(s[Len(s)])

RECURSIVE Pow10(_)
Pow10(k) == IF k = 0 THEN 1 ELSE 10 * Pow10(k - 1)

Unsigned(s) == IF s # <<>> /\ Head(s) \in {"+", "-"} THEN Tail(s) ELSE s
Sign(s) == IF s # <<>> /\ Head(s) = "-" THEN -1 ELSE 1

PyInt(str) ==
    Bind(Strip(str), LAMBDA s :
    Bind(Unsigned(s), LAMBDA u :
        IF u # <<>> /\ AllDigits(u) THEN Ok(Sign(s) * DecVal(u)) ELSE ValueError))

PyFloat(str) ==
    Bind(Strip(str), LAMBDA s :
    Bind(Unsigned(s), LAMBDA u :
    Bind(Split(u, "."), LAMBDA parts :
        IF Len(parts) = 1 /\ u # <<>> /\ AllDigits(u)
            THEN Ok(RI(Sign(s) * DecVal(u)))
        ELSE IF /\ Len(parts) = 2
                /\ AllDigits(parts[1]) /\ AllDigits(parts[2])
                /\ Len(parts[1]) + Len(parts[2]) > 0
            THEN Ok(Rat(Sign(s) * (DecVal(parts[1]) * Pow10(Len(parts[2])) + DecVal(parts[2])),
                        Pow10(Len(parts[2]))))
        ELSE ValueError)))

(***************************************************************************)
(* Unit converters (WorkoutBuilder)                                        *)
(***************************************************************************)
\* meters_per_mile = 1609.34
MetersPerMile == [n |-> 80467, d |-> 50]

MilesToMeters(miles) == RMul(miles, MetersPerMile)

\* the token of a hyphen-delimited range that the parsers read: parts[1]
RangePart(parts) == parts[2]

parse_distance(x) ==
    IF x.k = "num" THEN Ok(x.v)
    ELSE Bind(Strip(x.s), LAMBDA s :
             IF Contains(s, <<"-">>) THEN PyFloat(Strip(RangePart(Split(s, "-"))))
                                     ELSE PyFloat(s))

\* parse_duration once the range, if any, is reduced to one token
DurationOf(s) ==
    Bind(Split(s, ":"), LAMBDA parts :
        IF Contains(s, Chars("min"))
            THEN Bind(PyFloat(Strip(Remove(s, Chars("min")))), LAMBDA minutes :
                     IF minutes.ok THEN Ok(RI(RInt(RMul(minutes.v, RI(60))))) ELSE minutes)
        ELSE IF Contains(s, Chars("sec"))
            THEN Bind(PyFloat(Strip(Remove(s, Chars("sec")))), LAMBDA f :
                     IF f.ok THEN Ok(RI(RInt(f.v))) ELSE f)
        ELSE IF Len(parts) = 3
            THEN Bind(<<PyInt(parts[1]), PyInt(parts[2]), PyInt(parts[3])>>, LAMBDA hms :
                     IF hms[1].ok /\ hms[2].ok /\ hms[3].ok
                         THEN Ok(RI(hms[1].v * 3600 + hms[2].v * 60 + hms[3].v))
                         ELSE ValueError)
        ELSE IF Len(parts) = 2
            THEN Bind(<<PyInt(parts[1]), PyInt(parts[2])>>, LAMBDA ms :
                     IF ms[1].ok /\ ms[2].ok THEN Ok(RI(ms[1].v * 60 + ms[2].v))
                                             ELSE ValueError)
        ELSE Bind(PyFloat(s), LAMBDA f : IF f.ok THEN Ok(RI(RInt(f.v))) ELSE f))

parse_duration(x) ==
    IF x.k # "str" THEN AttributeError
    ELSE Bind(Lower(Strip(x.s)), LAMBDA s :
             IF Contains(s, <<"-">>) THEN DurationOf(Strip(RangePart(Split(s, "-"))))
                                     ELSE DurationOf(s))

\* meters_per_mile / pace_seconds_per_mile
SpeedOf(pace) ==
    IF pace = 0 THEN ZeroDivisionError
    ELSE IF pace > 0 THEN Ok(RDivInt(MetersPerMile, pace))
    ELSE Bind(RDivInt(MetersPerMile, -pace), LAMBDA q : Ok([n |-> -q.n, d |-> q.d]))

pace_to_speed(x) ==
    IF x.k # "str" THEN AttributeError
    ELSE Bind(Split(x.s, ":"), LAMBDA parts :
         Bind(PyInt(parts[1]), LAMBDA minutes :
         Bind(IF Len(parts) >= 2 THEN PyInt(parts[2]) ELSE IndexError, LAMBDA seconds :
             IF ~minutes.ok THEN minutes
             ELSE IF ~seconds.ok THEN seconds
             ELSE SpeedOf(minutes.v * 60 + seconds.v))))

(***************************************************************************)
(* Inputs of the converters                                                *)
(***************************************************************************)
MaxRangeLen == 3

\* the sequences of k range tokens
RECURSIVE TokSeqs(_)
TokSeqs(k) ==
    IF k = 0 THEN {<<>>}
    ELSE {Append(t, n) : t \in TokSeqs(k - 1), n \in {"5", "20", "25", "1.5"}}

RECURSIVE JoinHyphen(_)
JoinHyphen(toks) ==
    IF Len(toks) = 1 THEN Chars(toks[1])
    ELSE JoinHyphen(SubSeq(toks, 1, Len(toks) - 1)) \o <<"-">> \o Chars(toks[Len(toks)])

\* "a-b<unit>": the string a range argument stands for
RangeStr(toks, unit) == [k |-> "str", s |-> JoinHyphen(toks) \o Chars(unit)]

\* ranges of 1..MaxRangeLen tokens with a unit suffix, and other inputs
ConvArgs ==
    {[toks |-> t, unit |-> u, x |-> RangeStr(t, u)] :
        t \in UNION {TokSeqs(k) : k \in 1..MaxRangeLen}, u \in {"", " min", " sec", " MIN "}}
    \cup {[toks |-> <<>>, unit |-> "", x |-> x] : x \in
        {Str("1:30:00"), Str("5:00"), Str("1:2:3:4"), Str("90"), Str(" 10 "), Str("abc"),
         Str(""), Str("20 minutes"), Str("-5"), Str("8-"), Str("2.5 min"), Str("0.33 min"),
         Str("1.9 sec"), Str("1:xx"), Str("8-9 miles"), Num(30, 1), Num(17, 2)}}

(***************************************************************************)
(* The converters applied to an input                                      *)
(***************************************************************************)
NoSync ==
    /\ plan = <<>> /\ remote = <<>> /\ pc = "off" /\ cur = <<>> /\ calls = <<>>

InitConv ==
    /\ \/ op \in {"parse_distance", "parse_duration"} /\ arg \in ConvArgs
       \/ /\ op = "pace_to_speed"
          /\ arg \in {[toks |-> <<>>, unit |-> "", x |-> x] : x \in
                 {Str("6:30"), Str("7:02"), Str("10:00"), Str("7"), Str("7:02:30"),
                  Str("0:00"), Str("7:0x"), Str("x:30"), Str(""), Num(390, 1)}}
    /\ ret = Pending
    /\ NoSync

ParseDistance ==
    /\ op = "parse_distance" /\ ret = Pending
    /\ ret' = parse_distance(arg.x)
    /\ UNCHANGED <<op, arg, plan, remote, pc, cur, calls>>

ParseDuration ==
    /\ op = "parse_duration" /\ ret = Pending
    /\ ret' = parse_duration(arg.x)
    /\ UNCHANGED <<op, arg, plan, remote, pc, cur, calls>>

PaceToSpeed ==
    /\ op = "pace_to_speed" /\ ret = Pending
    /\ ret' = pace_to_speed(arg.x)
    /\ UNCHANGED <<op, arg, plan, remote, pc, cur, calls>>

NextConv ==
    \/ ParseDistance
    \/ ParseDuration
    \/ PaceToSpeed

SpecConv == InitConv /\ [][NextConv]_vars

(***************************************************************************)
(* Python dicts are functions on the keys present.  d.get(key, default)    *)
(***************************************************************************)
EmptyDict == <<>>

Get(d, key, default) == IF key \in DOMAIN d THEN d[key] ELSE default

\* d.pop(key, None): the dict without the key
Pop(d, key) == [f \in DOMAIN d \ {key} |-> d[f]]

(***************************************************************************)
(* Target-zone resolver and step constructors (WorkoutBuilder)             *)
(***************************************************************************)
get_no_target == [workoutTargetTypeId |-> 1, workoutTargetTypeKey |-> "no.target"]

TargetLowFactor == [n |-> 19, d |-> 20]
TargetHighFactor == [n |-> 21, d |-> 20]

\* the table read without the membership test: an unknown zone is a KeyError
get_target_speed_zone_unchecked(paces, pace_zone) ==
    IF pace_zone \notin DOMAIN paces THEN KeyError
    ELSE Bind(pace_to_speed(paces[pace_zone]), LAMBDA speed_mps :
             IF ~speed_mps.ok THEN speed_mps
             ELSE Ok([workoutTargetTypeId |-> 6,
                      workoutTargetTypeKey |-> "pace.zone",
                      targetValueOne |-> RMul(speed_mps.v, TargetLowFactor),
                      targetValueTwo |-> RMul(speed_mps.v, TargetHighFactor)]))

\* a pace target filed under the heart-rate target type
get_target_speed_zone_heart_rate(paces, pace_zone) ==
    IF pace_zone \notin DOMAIN paces THEN Ok(get_no_target)
    ELSE Bind(pace_to_speed(paces[pace_zone]), LAMBDA speed_mps :
             IF ~speed_mps.ok THEN speed_mps
             ELSE Ok([workoutTargetTypeId |-> 4,
                      workoutTargetTypeKey |-> "heart.rate.zone",
                      targetValueOne |-> RMul(speed_mps.v, TargetLowFactor),
                      targetValueTwo |-> RMul(speed_mps.v, TargetHighFactor)]))

get_target_speed_zone(paces, pace_zone) ==
    IF pace_zone \notin DOMAIN paces THEN Ok(get_no_target)
    ELSE Bind(pace_to_speed(paces[pace_zone]), LAMBDA speed_mps :
             IF ~speed_mps.ok THEN speed_mps
             ELSE Ok([workoutTargetTypeId |-> 6,
                      workoutTargetTypeKey |-> "pace.zone",
                      targetValueOne |-> RMul(speed_mps.v, TargetLowFactor),
                      targetValueTwo |-> RMul(speed_mps.v, TargetHighFactor)]))

\* the step dict with the target left as it came: the values stay inside targetType
StepDict_nested_target(step_order, step_type_id, step_type_key, end_condition_id, end_condition_key, end_condition_value, target) ==
    [type |-> "ExecutableStepDTO",
     stepOrder |-> step_order,
     stepType |-> [stepTypeId |-> step_type_id, stepTypeKey |-> step_type_key],
     endCondition |-> [conditionTypeId |-> end_condition_id,
                       conditionTypeKey |-> end_condition_key],
     endConditionValue |-> end_condition_value,
     targetType |-> target]

\* the step dict; a target value is added at step level when the target had it
StepDict(step_order, step_type_id, step_type_key, end_condition_id, end_condition_key, end_condition_value, target) ==
    [type |-> "ExecutableStepDTO",
     stepOrder |-> step_order,
     stepType |-> [stepTypeId |-> step_type_id, stepTypeKey |-> step_type_key],
     endCondition |-> [conditionTypeId |-> end_condition_id,
                       conditionTypeKey |-> end_condition_key],
     endConditionValue |-> end_condition_value,
     targetType |-> Pop(Pop(target, "targetValueOne"), "targetValueTwo")]
        @@ (IF "targetValueOne" \in DOMAIN target
                THEN [targetValueOne |-> target.targetValueOne] ELSE EmptyDict)
        @@ (IF "targetValueTwo" \in DOMAIN target
                THEN [targetValueTwo |-> target.targetValueTwo] ELSE EmptyDict)

create_executable_step(step_order, step_type_id, step_type_key, end_condition_id, end_condition_key, end_condition_value, target_type) ==
    Bind(target_type, LAMBDA t :
        StepDict(step_order, step_type_id, step_type_key, end_condition_id,
                 end_condition_key, end_condition_value,
                 IF DOMAIN t = {} THEN get_no_target ELSE t))

create_repeat_group(step_order, iterations, steps) ==
    [type |-> "RepeatGroupDTO",
     stepOrder |-> step_order,
     numberOfIterations |-> iterations,
     workoutSteps |-> steps]

(***************************************************************************)
(* The step compiler: _build_structured_workout, phase by phase.  A phase  *)
(* takes the result so far, Ok([steps, step_order]) or the exception       *)
(* raised, and returns the result after it.                                *)
(***************************************************************************)
DefaultWarmupMiles == 2
DefaultWorkDistance == 600
DefaultRestSeconds == 150
DefaultSimpleMiles == 5

\* steps.append(create_executable_step(...)) once the end value and the target are
\* computed, in that order; step_order += bump
Emit(st, value_expr, target_expr, type_id, type_key, end_id, end_key, bump) ==
    Bind(value_expr, LAMBDA value :
        IF ~value.ok THEN value
        ELSE Bind(target_expr, LAMBDA target :
            IF ~target.ok THEN target
            ELSE Ok([steps |-> Append(st.steps,
                                      create_executable_step(st.step_order, type_id, type_key,
                                                             end_id, end_key, value.v, target.v)),
                     step_order |-> st.step_order + bump])))

\* distance_miles * 1609.34
DistanceMeters(parsed_expr) ==
    Bind(parsed_expr, LAMBDA parsed :
        IF parsed.ok THEN Ok(MilesToMeters(parsed.v)) ELSE parsed)

\* a warmup that ends on its duration when it carries one
WarmupPhase_timed(paces, structure, r) ==
    IF ~r.ok THEN r
    ELSE IF "warmup" \notin DOMAIN structure THEN r
    ELSE IF "duration" \in DOMAIN structure.warmup
        THEN Emit(r.v, parse_duration(structure.warmup.duration),
                  get_target_speed_zone(paces, Get(structure.warmup, "pace", "general_aerobic")),
                  1, "warmup", 2, "time", 1)
    ELSE Emit(r.v,
              DistanceMeters(parse_distance(Get(structure.warmup, "distance",
                                                Num(DefaultWarmupMiles, 1)))),
              get_target_speed_zone(paces, Get(structure.warmup, "pace", "general_aerobic")),
              1, "warmup", 3, "distance", 1)

WarmupPhase(paces, structure, r) ==
    IF ~r.ok THEN r
    ELSE IF "warmup" \notin DOMAIN structure THEN r
    ELSE Emit(r.v,
              DistanceMeters(parse_distance(Get(structure.warmup, "distance",
                                                Num(DefaultWarmupMiles, 1)))),
              get_target_speed_zone(paces, Get(structure.warmup, "pace", "general_aerobic")),
              1, "warmup", 3, "distance", 1)

\* the distance-based work interval's end value
WorkDistance(work) ==
    Bind(Get(work, "distance", Num(DefaultWorkDistance, 1)), LAMBDA work_distance_meters :
        IF Get(work, "unit", "") = "meters"
            THEN Ok(IF work_distance_meters.k = "num"
                        THEN work_distance_meters.v ELSE work_distance_meters)
        ELSE IF work_distance_meters.k = "num"
            THEN Ok(MilesToMeters(work_distance_meters.v))
        ELSE TypeError)

NoSteps == [steps |-> <<>>, step_order |-> 1]

WorkStep(paces, work) ==
    IF "duration" \in DOMAIN work
        THEN Emit(NoSteps, parse_duration(work.duration),
                  get_target_speed_zone(paces, Get(work, "pace", "lactate_threshold")),
                  3, "interval", 2, "time", 1)
        ELSE Emit(NoSteps, WorkDistance(work),
                  get_target_speed_zone(paces, Get(work, "pace", "vo2max")),
                  3, "interval", 3, "distance", 1)

\* a recovery leaf whatever the rest type
RestStep_any_type(rest, rs) ==
    IF ~rs.ok THEN rs
    ELSE Emit(rs.v,
              IF "duration" \in DOMAIN rest THEN parse_duration(rest.duration)
                                            ELSE Ok(RI(DefaultRestSeconds)),
              Ok(get_no_target),
              4, "recovery", 2, "time", 1)

RestStep(rest, rs) ==
    IF ~rs.ok THEN rs
    ELSE IF Get(rest, "type", "") # "jog" THEN rs
    ELSE Emit(rs.v,
              IF "duration" \in DOMAIN rest THEN parse_duration(rest.duration)
                                            ELSE Ok(RI(DefaultRestSeconds)),
              Ok(get_no_target),
              4, "recovery", 2, "time", 1)

IntervalsPhase(paces, structure, r) ==
    IF ~r.ok THEN r
    ELSE IF "intervals" \notin DOMAIN structure THEN r
    ELSE Bind(structure.intervals, LAMBDA intervals :
         Bind(WorkStep(paces, Get(intervals, "work", EmptyDict)), LAMBDA work_steps :
         Bind(RestStep(Get(intervals, "rest", EmptyDict), work_steps), LAMBDA repeat_steps :
             IF ~repeat_steps.ok THEN repeat_steps
             ELSE Ok([steps |-> Append(r.v.steps,
                                       create_repeat_group(r.v.step_order,
                                                           Get(intervals, "repeat", 1),
                                                           repeat_steps.v.steps)),
                      step_order |-> r.v.step_order + 1]))))

\* the main phase's leaf, if it has a duration or a distance
MainStep(paces, main, st) ==
    IF "duration" \in DOMAIN main
        THEN Emit(st, parse_duration(main.duration),
                  get_target_speed_zone(paces, Get(main, "pace", "lactate_threshold")),
                  3, "interval", 2, "time", 0)
    ELSE IF "distance" \in DOMAIN main
        THEN Emit(st, DistanceMeters(parse_distance(main.distance)),
                  get_target_speed_zone(paces, Get(main, "pace", "marathon_pace")),
                  3, "interval", 3, "distance", 0)
    ELSE Ok(st)

\* the main phase compiled whether or not there are intervals
MainPhase_beside_intervals(paces, structure, r) ==
    IF ~r.ok THEN r
    ELSE IF "main" \notin DOMAIN structure THEN r
    ELSE Bind(MainStep(paces, structure.main, r.v), LAMBDA emitted :
             IF ~emitted.ok THEN emitted
             ELSE Ok([steps |-> emitted.v.steps, step_order |-> emitted.v.step_order + 1]))

MainPhase(paces, structure, r) ==
    IF ~r.ok THEN r
    ELSE IF ~("main" \in DOMAIN structure /\ "intervals" \notin DOMAIN structure) THEN r
    ELSE Bind(MainStep(paces, structure.main, r.v), LAMBDA emitted :
             IF ~emitted.ok THEN emitted
             ELSE Ok([steps |-> emitted.v.steps, step_order |-> emitted.v.step_order + 1]))

CooldownPhase(paces, structure, r) ==
    IF ~r.ok THEN r
    ELSE IF "cooldown" \notin DOMAIN structure THEN r
    ELSE Emit(r.v,
              DistanceMeters(parse_distance(Get(structure.cooldown, "distance",
                                                Num(DefaultWarmupMiles, 1)))),
              get_target_speed_zone(paces, Get(structure.cooldown, "pace", "general_aerobic")),
              2, "cooldown", 3, "distance", 0)

build_structured_workout(paces, structure, start_order) ==
    Bind(WarmupPhase(paces, structure, Ok([steps |-> <<>>, step_order |-> start_order])),
         LAMBDA w :
    Bind(IntervalsPhase(paces, structure, w), LAMBDA i :
    Bind(MainPhase(paces, structure, i), LAMBDA m :
    Bind(CooldownPhase(paces, structure, m), LAMBDA c :
        IF c.ok THEN Ok(c.v.steps) ELSE c))))

(***************************************************************************)
(* _build_simple_workout, _estimate_duration and build_workout_from_yaml   *)
(***************************************************************************)
\* Python truth value of an optional plan value: None, 0 and '' are false
Truthy(d, key) ==
    /\ key \in DOMAIN d
    /\ IF d[key].k = "num" THEN d[key].v.n # 0 ELSE d[key].s # <<>>

\* the table without its aliases: only the types that are zone names
pace_zone_map_no_aliases(workout_type) ==
    CASE workout_type = "recovery" -> "recovery"
      [] workout_type = "lactate_threshold" -> "lactate_threshold"
      [] workout_type = "vo2max" -> "vo2max"
      [] OTHER -> "general_aerobic"

pace_zone_map(workout_type) ==
    CASE workout_type = "recovery" -> "recovery"
      [] workout_type = "general_aerobic" -> "general_aerobic"
      [] workout_type = "endurance" -> "endurance"
      [] workout_type = "medium_long_run" -> "endurance"
      [] workout_type = "long_run" -> "endurance"
      [] workout_type = "marathon_pace_run" -> "marathon_pace"
      [] workout_type = "lactate_threshold" -> "lactate_threshold"
      [] workout_type = "vo2max" -> "vo2max"
      [] OTHER -> "general_aerobic"

build_simple_workout(paces, workout_data, start_order) ==
    Bind(Emit([steps |-> <<>>, step_order |-> start_order],
              DistanceMeters(parse_distance(IF Truthy(workout_data, "distance")
                                                THEN workout_data.distance
                                                ELSE Num(DefaultSimpleMiles, 1))),
              get_target_speed_zone(paces,
                  pace_zone_map(Get(workout_data, "type", "general_aerobic"))),
              3, "interval", 3, "distance", 1),
         LAMBDA r : IF r.ok THEN Ok(r.v.steps) ELSE r)

AssumedPaceMinPerMile == 9
DefaultEstimateSecs == 3600

estimate_duration(workout_data) ==
    IF Truthy(workout_data, "distance")
        THEN Bind(parse_distance(workout_data.distance), LAMBDA distance_miles :
                 IF ~distance_miles.ok THEN distance_miles
                 ELSE Ok(RInt(RMul(RMul(distance_miles.v, RI(AssumedPaceMinPerMile)),
                                   RI(60)))))
        ELSE Ok(DefaultEstimateSecs)

RECURSIVE IntToChars(_)
IntToChars(n) ==
    LET digit == CHOOSE c \in Digits : DigitVal(c) = n % 10
    IN  IF n < 10 THEN <<digit>> ELSE IntToChars(n \div 10) \o <<digit>>

PlanMarker == Chars("NYC Marathon 2026")

\* f"NYC Marathon 2026 - Week {week_number} - {day_name.capitalize()}"
WorkoutName(week_number, day_name) ==
    PlanMarker \o Chars(" - Week ") \o IntToChars(week_number) \o Chars(" - ")
        \o Capitalize(day_name)

RunningSport == [sportTypeId |-> 1, sportTypeKey |-> "running"]

build_workout_from_yaml(paces, workout_data, workout_date, week_number, day_name) ==
    Bind(IF "structure" \in DOMAIN workout_data
             THEN build_structured_workout(paces, workout_data.structure, 1)
             ELSE build_simple_workout(paces, workout_data, 1),
         LAMBDA steps :
    Bind(IF steps.ok THEN estimate_duration(workout_data) ELSE steps,
         LAMBDA estimated_duration :
        IF ~steps.ok THEN steps
        ELSE IF ~estimated_duration.ok THEN estimated_duration
        ELSE Ok([workoutName |-> WorkoutName(week_number, day_name),
                 description |-> Get(workout_data, "description", ""),
                 sportType |-> RunningSport,
                 estimatedDurationInSecs |-> estimated_duration.v,
                 workoutSegments |->
                     <<[segmentOrder |-> 1,
                        sportType |-> RunningSport @@ [displayOrder |-> 1],
                        workoutSteps |-> steps.v]>>])))

\* the compiled top-level step list of a document
StepsOf(doc) == doc.workoutSegments[1].workoutSteps

(***************************************************************************)
(* Inputs of the step compiler: pace tables and workout descriptions       *)
(***************************************************************************)
MaxRepeat == 3

PaceTables ==
    {[lactate_threshold |-> Str("6:30")],
     [lactate_threshold |-> Str("6:30"), general_aerobic |-> Str("8:30"),
      recovery |-> Str("9:15"), marathon_pace |-> Str("7:02")],
     [lactate_threshold |-> Str("6:30"), general_aerobic |-> Str("8"),
      vo2max |-> Str("5:40")]}

\* a phase that may be absent: no key, or the key with one of the dicts
Optional(key, dicts) == {EmptyDict} \cup {(key :> d) : d \in dicts}

WarmupDicts ==
    {EmptyDict,
     [distance |-> Num(3, 1), pace |-> "recovery"],
     [distance |-> Str("1-2"), duration |-> Str("10 min")],
     [distance |-> Str("two")]}

WorkDicts ==
    {EmptyDict,
     [duration |-> Str("20-25 min"), pace |-> "lactate_threshold"],
     [duration |-> Str("soon")],
     [distance |-> Num(800, 1), unit |-> "meters", pace |-> "vo2max"],
     [distance |-> Num(1, 2)],
     [unit |-> "meters"]}

RestDicts ==
    {EmptyDict,
     [type |-> "jog"],
     [type |-> "jog", duration |-> Str("90 sec")],
     [type |-> "jog", duration |-> Str("a while")],
     [type |-> "walk", duration |-> Str("60 sec")]}

IntervalDicts ==
    {w @@ r @@ n :
        w \in Optional("work", WorkDicts),
        r \in Optional("rest", RestDicts),
        n \in {EmptyDict} \cup {[repeat |-> k] : k \in 1..MaxRepeat}}

MainDicts ==
    {EmptyDict,
     [duration |-> Str("30 min")],
     [distance |-> Str("8-9"), pace |-> "marathon_pace"],
     [duration |-> Str("0:45:00"), distance |-> Num(6, 1)]}

CooldownDicts ==
    {EmptyDict,
     [distance |-> Num(3, 2), pace |-> "recovery"],
     [pace |-> "tempo", duration |-> Str("5 min")]}

Structures ==
    {w @@ i @@ m @@ c :
        w \in Optional("warmup", WarmupDicts),
        i \in Optional("intervals", IntervalDicts),
        m \in Optional("main", MainDicts),
        c \in Optional("cooldown", CooldownDicts)}

StructuredWorkouts ==
    {[type |-> "lactate_threshold", description |-> "LT intervals", structure |-> s] :
        s \in Structures}

SimpleWorkouts ==
    {t @@ d :
        t \in {EmptyDict} \cup
              {[type |-> x] : x \in {"rest", "recovery", "general_aerobic", "endurance",
                                     "medium_long_run", "long_run", "marathon_pace_run",
                                     "lactate_threshold", "vo2max", "cross_training"}},
        d \in Optional("distance", {Num(8, 1), Num(0, 1), Str("8-9"), Str("9-8"),
                                    Str("far"), Str("")})}

BuildArgs ==
    [paces : PaceTables, workout : StructuredWorkouts \cup SimpleWorkouts,
     week : {1}, day : {Chars("tuesday")}]

\* the pace tables and zone names the target-zone resolver is tried on: every
\* table over three zones and three pace strings, one of them malformed and
\* one a zero pace
ZoneNames == {"recovery", "general_aerobic", "lactate_threshold"}
(***************************************************************************)
(* The step compiler applied to a workout, and the target-zone resolver    *)
(* applied to a zone name                                                  *)
(***************************************************************************)
InitBuild ==
    /\ \/ op = "build_workout_from_yaml" /\ arg \in BuildArgs
       \* a pace table over any subset of the zone names, and a zone to resolve
       \/ /\ op = "get_target_speed_zone"
          /\ arg \in [paces : UNION {[zones -> {Str("6:30"), Str("8"), Str("0:00")}] :
                                       zones \in SUBSET ZoneNames},
                      zone : ZoneNames \cup {"tempo", ""}]
    /\ ret = Pending
    /\ NoSync

BuildWorkout ==
    /\ op = "build_workout_from_yaml" /\ ret = Pending
    /\ ret' = build_workout_from_yaml(arg.paces, arg.workout, <<>>, arg.week, arg.day)
    /\ UNCHANGED <<op, arg, plan, remote, pc, cur, calls>>

GetTargetSpeedZone ==
    /\ op = "get_target_speed_zone" /\ ret = Pending
    /\ ret' = get_target_speed_zone(arg.paces, arg.zone)
    /\ UNCHANGED <<op, arg, plan, remote, pc, cur, calls>>

NextBuild == BuildWorkout \/ GetTargetSpeedZone

SpecBuild == InitBuild /\ [][NextBuild]_vars

\* ============================ Schedule calculator ============================
\* sync_garmin.py: calculate_week_start_date, get_workout_date and the date
\* values they work on.  A date is [y, m, d]; datetime's arithmetic goes
\* through the proleptic Gregorian ordinal (day 1 is 0001-01-01), as
\* datetime - timedelta does.

IsLeap(y) == y % 4 = 0 /\ (y % 100 # 0 \/ y % 400 = 0)

DaysInMonth(y, m) ==
    IF m = 2 THEN (IF IsLeap(y) THEN 29 ELSE 28)
    ELSE IF m \in {4, 6, 9, 11} THEN 30 ELSE 31

RECURSIVE DaysBeforeMonth(_, _)
DaysBeforeMonth(y, m) == IF m = 1 THEN 0 ELSE DaysBeforeMonth(y, m - 1) + DaysInMonth(y, m - 1)

DaysBeforeYear(y) == (y - 1) * 365 + (y - 1) \div 4 - (y - 1) \div 100 + (y - 1) \div 400

ToOrdinal(date) == DaysBeforeYear(date.y) + DaysBeforeMonth(date.y, date.m) + date.d

DaysIn400Years == DaysBeforeYear(401)
DaysIn100Years == DaysBeforeYear(101)
DaysIn4Years == DaysBeforeYear(5)

FromOrdinal(ordinal) ==
    LET n0 == ordinal - 1
        n400 == n0 \div DaysIn400Years
        r400 == n0 % DaysIn400Years
        n100 == r400 \div DaysIn100Years
        r100 == r400 % DaysIn100Years
        n4 == r100 \div DaysIn4Years
        r4 == r100 % DaysIn4Years
        n1 == r4 \div 365
        n == r4 % 365
        year == n400 * 400 + 1 + n100 * 100 + n4 * 4 + n1
        month == CHOOSE m \in 1..12 :
                     /\ DaysBeforeMonth(year, m) <= n
                     /\ n < DaysBeforeMonth(year, m) + DaysInMonth(year, m)
    IN  IF n1 = 4 \/ n100 = 4 THEN [y |-> year - 1, m |-> 12, d |-> 31]
        ELSE [y |-> year, m |-> month, d |-> n - DaysBeforeMonth(year, month) + 1]

\* date + timedelta(days=days); days may be negative
AddDays(date, days) == FromOrdinal(ToOrdinal(date) + days)

\* dateutil's parse, on the inputs the model draws: an ISO 'YYYY-MM-DD' string
\* is the date it spells, anything else is a ParserError (a ValueError)
parse_date(s) ==
    Bind(Split(s, "-"), LAMBDA parts :
        IF /\ Len(parts) = 3
           /\ Len(parts[1]) = 4 /\ Len(parts[2]) = 2 /\ Len(parts[3]) = 2
           /\ \A i \in 1..3 : AllDigits(parts[i])
           /\ DecVal(parts[1]) >= 1
           /\ DecVal(parts[2]) \in 1..12
           /\ DecVal(parts[3]) \in 1..DaysInMonth(DecVal(parts[1]), DecVal(parts[2]))
        THEN Ok([y |-> DecVal(parts[1]), m |-> DecVal(parts[2]), d |-> DecVal(parts[3])])
        ELSE ValueError)

RECURSIVE ZeroPad(_, _)
ZeroPad(s, width) == IF Len(s) >= width THEN s ELSE ZeroPad(<<"0">> \o s, width)

\* date.strftime('%Y-%m-%d')
strftime(date) ==
    ZeroPad(IntToChars(date.y), 4) \o <<"-">> \o ZeroPad(IntToChars(date.m), 2)
        \o <<"-">> \o ZeroPad(IntToChars(date.d), 2)

PlanWeeks == 19
DaysToMonday == 6

\* the Sunday-for-Monday slip: the week's last day returned as its first
calculate_week_start_date_sunday(plan_data, week_number) ==
    Bind(parse_date(plan_data.goal_event.date), LAMBDA race_date :
        IF ~race_date.ok THEN race_date
        ELSE Ok(AddDays(race_date.v, -(7 * (PlanWeeks - week_number)))))

calculate_week_start_date(plan_data, week_number) ==
    Bind(parse_date(plan_data.goal_event.date), LAMBDA race_date :
        IF ~race_date.ok THEN race_date
        ELSE Bind(PlanWeeks - week_number, LAMBDA weeks_before_race :
             Bind(AddDays(race_date.v, -(7 * weeks_before_race)), LAMBDA week_sunday :
                 Ok(AddDays(week_sunday, -DaysToMonday)))))

day_offset ==
    [d \in {"monday", "tuesday", "wednesday", "thursday", "friday", "saturday", "sunday"} |->
        CASE d = "monday" -> 0 [] d = "tuesday" -> 1 [] d = "wednesday" -> 2
          [] d = "thursday" -> 3 [] d = "friday" -> 4 [] d = "saturday" -> 5
          [] d = "sunday" -> 6]

\* day names are character sequences; the table is keyed by the lower-cased name
\* the table looked up with the name as given, not lower-cased
DayKey_case_sensitive(day_name) ==
    IF \E d \in DOMAIN day_offset : Chars(d) = day_name
    THEN Ok(CHOOSE d \in DOMAIN day_offset : Chars(d) = day_name)
    ELSE ValueError

DayKey(day_name) ==
    Bind(Lower(day_name), LAMBDA low :
        IF \E d \in DOMAIN day_offset : Chars(d) = low
        THEN Ok(CHOOSE d \in DOMAIN day_offset : Chars(d) = low)
        ELSE ValueError)

get_workout_date(plan_data, week_number, day_name) ==
    Bind(calculate_week_start_date(plan_data, week_number), LAMBDA week_start :
        IF ~week_start.ok THEN week_start
        ELSE Bind(DayKey(day_name), LAMBDA key :
                 IF ~key.ok THEN key
                 ELSE Ok(AddDays(week_start.v, day_offset[key.v]))))

\* ------------------------- the calculator's inputs -------------------------
MaxWeek == 20

\* a week number, a day name (the seven names, other spellings, no names)
\* and a goal date
InitDate ==
    /\ op \in {"calculate_week_start_date", "get_workout_date"}
    /\ arg \in [week : 0..MaxWeek,
                day : {Chars(d) : d \in DOMAIN day_offset}
                          \cup {Chars("Tuesday"), Chars("SUNDAY"), Chars("funday"),
                                Chars("mon"), Chars(" monday"), <<>>}]
    /\ plan \in {[goal_event |-> [date |-> g]] : g \in
                   {Chars("2026-11-01"), Chars("2026-11-04"), Chars("2024-03-03"),
                    Chars("2025-01-05"), Chars("2100-05-02"), Chars("2000-12-31"),
                    Chars("2028-07-09")}}
    /\ ret = Pending
    /\ remote = <<>> /\ pc = "off" /\ cur = <<>> /\ calls = <<>>

CalculateWeekStartDate ==
    /\ op = "calculate_week_start_date" /\ ret = Pending
    /\ ret' = calculate_week_start_date(plan, arg.week)
    /\ UNCHANGED <<op, arg, plan, remote, pc, cur, calls>>

GetWorkoutDate ==
    /\ op = "get_workout_date" /\ ret = Pending
    /\ ret' = get_workout_date(plan, arg.week, arg.day)
    /\ UNCHANGED <<op, arg, plan, remote, pc, cur, calls>>

NextDate == CalculateWeekStartDate \/ GetWorkoutDate

SpecDate == InitDate /\ [][NextDate]_vars

\* ============================== Batch operations =============================
\* sync_garmin.py: load_plan, upload_all, delete_all, update_week and the two
\* guarded remote helpers.  The remote service is outside the program: each
\* call to it takes one of the results below, chosen freely.

None == [none |-> TRUE]
SystemExit == Err("SystemExit")

\* a remote call as recorded in calls: what was called, with what, and how the
\* service answered
Call(call, id, name, date, result) ==
    [call |-> call, id |-> id, name |-> name, date |-> date, result |-> result]

\* api.upload_workout: a result carrying a workoutId, a result without one,
\* a falsy result, an exception
UploadResults == {"id", "no_id", "none", "raises"}
\* garth request/post: a status code, or an exception
StatusResults == {"204", "500", "raises"}
\* api.get_workouts: the list of workouts, a falsy result, an exception
FetchResults == {"list", "none", "raises"}

Max(a, b) == IF a >= b THEN a ELSE b

RECURSIVE MaxId(_)
MaxId(entries) ==
    IF entries = <<>> THEN 0
    ELSE Max(IF "workoutId" \in DOMAIN Head(entries) THEN Head(entries).workoutId
             ELSE Head(entries).id,
             MaxId(Tail(entries)))

\* the id the service gives the next stored workout: one it never used
NewId(library, made) == 1 + Max(MaxId(library), MaxId(made))

\* delete_workout: True on status 200 or 204, False otherwise, never raises
delete_workout(workout_id, result) ==
    [returned |-> result \in {"200", "204"},
     call |-> Call("delete_workout", workout_id, <<>>, <<>>, result)]

\* schedule_workout: True on status 200, 201 or 204, False otherwise, never raises
schedule_workout(workout_id, date, result) ==
    [returned |-> result \in {"200", "201", "204"},
     call |-> Call("schedule_workout", workout_id, <<>>, strftime(date), result)]

\* the workouts left once the service has deleted workout_id
Deleted(library, workout_id) ==
    SelectSeq(library, LAMBDA w : Get(w, "workoutId", 0) # workout_id)

DayResult(status, made, stored) == [status |-> status, calls |-> made, stored |-> stored]

\* the body scheduling whatever the upload returned, with or without an id
UploadDay_schedule_always(workout_json, workout_date, up, sc, new_id) ==
    IF ~workout_json.ok THEN DayResult("failed", <<>>, <<>>)
    ELSE Bind(workout_json.v.workoutName, LAMBDA name :
             CASE up = "raises" ->
                      DayResult("failed", <<Call("upload_workout", 0, name, <<>>, up)>>, <<>>)
               [] up = "none" ->
                      DayResult("no_result", <<Call("upload_workout", 0, name, <<>>, up)>>, <<>>)
               [] up = "no_id" ->
                      DayResult("uploaded",
                                <<Call("upload_workout", 0, name, <<>>, up),
                                  schedule_workout(0, workout_date, sc).call>>,
                                <<>>)
               [] up = "id" ->
                      DayResult("uploaded",
                                <<Call("upload_workout", new_id, name, <<>>, up),
                                  schedule_workout(new_id, workout_date, sc).call>>,
                                <<[workoutId |-> new_id, workoutName |-> name]>>))

\* the guarded body run for one non-rest workout (upload_all; update_week
\* repeats it), given the outcome workout_json of compiling it: upload, and
\* schedule when the result carries an id.  status is what the body logs:
\* 'uploaded', 'no_result' or 'failed'.
UploadDay(workout_json, workout_date, up, sc, new_id) ==
    IF ~workout_json.ok THEN DayResult("failed", <<>>, <<>>)
    ELSE Bind(workout_json.v.workoutName, LAMBDA name :
             CASE up = "raises" ->
                      DayResult("failed", <<Call("upload_workout", 0, name, <<>>, up)>>, <<>>)
               [] up = "none" ->
                      DayResult("no_result", <<Call("upload_workout", 0, name, <<>>, up)>>, <<>>)
               [] up = "no_id" ->
                      DayResult("uploaded", <<Call("upload_workout", 0, name, <<>>, up)>>, <<>>)
               [] up = "id" ->
                      DayResult("uploaded",
                                <<Call("upload_workout", new_id, name, <<>>, up),
                                  schedule_workout(new_id, workout_date, sc).call>>,
                                <<[workoutId |-> new_id, workoutName |-> name]>>))

IsRest(workout) == Get(workout, "type", "") = "rest"

\* ------------------------------- load_plan ---------------------------------
required_fields == {"goal_event", "plan", "paces", "weeks"}

LoadPlan ==
    /\ pc = "load"
    /\ IF /\ required_fields \subseteq DOMAIN plan
          /\ "name" \in DOMAIN plan.plan
          /\ {"name", "date"} \subseteq DOMAIN plan.goal_event
       THEN pc' = "ready" /\ ret' = ret
       ELSE pc' = "exit" /\ ret' = SystemExit
    /\ UNCHANGED <<op, arg, plan, remote, cur, calls>>

\* ------------------------------- upload_all --------------------------------
StartUploadAll ==
    /\ pc = "ready"
    /\ op' = "upload_all" /\ arg' = EmptyDict
    /\ cur' = [week_index |-> 1, day_index |-> 1, total_workouts |-> 0,
               uploaded_workouts |-> 0, skipped_workouts |-> 0]
    /\ pc' = "upload_all:week"
    /\ UNCHANGED <<ret, plan, remote, calls>>

\* for week in weeks: week['week'], week['block'], week['workouts']
UploadAllWeek ==
    /\ pc = "upload_all:week"
    /\ cur.week_index <= Len(plan.weeks)
    /\ IF {"week", "block", "workouts"} \subseteq DOMAIN plan.weeks[cur.week_index]
       THEN pc' = "upload_all:day" /\ cur' = [cur EXCEPT !.day_index = 1] /\ ret' = ret
       ELSE pc' = "raised" /\ ret' = KeyError /\ cur' = cur
    /\ UNCHANGED <<op, arg, plan, remote, calls>>

UploadAllDay ==
    /\ pc = "upload_all:day"
    /\ cur.day_index <= Len(plan.weeks[cur.week_index].workouts)
    /\ \E item \in {plan.weeks[cur.week_index].workouts[cur.day_index]},
          week_number \in {plan.weeks[cur.week_index].week} :
       \E workout_date \in {get_workout_date(plan, week_number, item.day)} :
           IF ~workout_date.ok
           THEN pc' = "raised" /\ ret' = workout_date /\ UNCHANGED <<cur, calls, remote>>
           ELSE IF IsRest(item.workout)
           THEN /\ cur' = [cur EXCEPT !.skipped_workouts = @ + 1, !.day_index = @ + 1]
                /\ UNCHANGED <<pc, ret, calls, remote>>
           ELSE \E workout_json \in {build_workout_from_yaml(plan.paces, item.workout,
                                          workout_date.v, week_number, item.day)},
                   up \in UploadResults, sc \in StatusResults :
                \E day \in {UploadDay(workout_json, workout_date.v, up, sc,
                                      NewId(remote, calls))} :
                        /\ cur' = [cur EXCEPT
                                     !.total_workouts = @ + 1,
                                     !.uploaded_workouts =
                                         IF day.status = "uploaded" THEN @ + 1 ELSE @,
                                     !.day_index = @ + 1]
                        /\ calls' = calls \o day.calls
                        /\ remote' = remote \o day.stored
                        /\ UNCHANGED <<pc, ret>>
    /\ UNCHANGED <<op, arg, plan>>

UploadAllWeekEnd ==
    /\ pc = "upload_all:day"
    /\ cur.day_index > Len(plan.weeks[cur.week_index].workouts)
    /\ cur' = [cur EXCEPT !.week_index = @ + 1]
    /\ pc' = "upload_all:week"
    /\ UNCHANGED <<op, arg, ret, plan, remote, calls>>

UploadAllSummary ==
    /\ pc = "upload_all:week"
    /\ cur.week_index > Len(plan.weeks)
    /\ ret' = Ok([total_workouts |-> cur.total_workouts,
                  uploaded_workouts |-> cur.uploaded_workouts,
                  skipped_workouts |-> cur.skipped_workouts])
    /\ pc' = "done"
    /\ UNCHANGED <<op, arg, plan, remote, cur, calls>>

\* ------------------------------- delete_all --------------------------------
StartDeleteAll ==
    /\ pc = "ready"
    /\ op' = "delete_all" /\ arg' = EmptyDict
    /\ cur' = [plan_workouts |-> <<>>, index |-> 1, deleted_count |-> 0, failed_count |-> 0]
    /\ pc' = "delete_all:fetch"
    /\ UNCHANGED <<ret, plan, remote, calls>>

\* get_workouts, then the filter on the plan marker; a fetch that raises is
\* caught by the enclosing try, and an empty outcome returns at once
DeleteAllFetch ==
    /\ pc = "delete_all:fetch"
    /\ \E fetched \in FetchResults :
        /\ calls' = Append(calls, Call("get_workouts", 0, <<>>, <<>>, fetched))
        /\ LET plan_workouts ==
                   SelectSeq(remote, LAMBDA w :
                       Contains(Get(w, "workoutName", <<>>), PlanMarker))
           IN  IF fetched = "list" /\ plan_workouts # <<>>
               THEN /\ cur' = [cur EXCEPT !.plan_workouts = plan_workouts]
                    /\ pc' = "delete_all:delete" /\ ret' = ret
               ELSE pc' = "returned" /\ ret' = Ok(None) /\ cur' = cur
    /\ UNCHANGED <<op, arg, plan, remote>>

\* the loop left at the first deletion that fails
DeleteAllDelete_stops_on_failure ==
    /\ pc = "delete_all:delete"
    /\ cur.index <= Len(cur.plan_workouts)
    /\ \E result \in StatusResults :
        LET workout_id == Get(cur.plan_workouts[cur.index], "workoutId", 0)
            deleted == delete_workout(workout_id, result)
        IN  /\ calls' = Append(calls, deleted.call)
            /\ remote' = IF deleted.returned THEN Deleted(remote, workout_id) ELSE remote
            /\ cur' = [cur EXCEPT
                         !.deleted_count = IF deleted.returned THEN @ + 1 ELSE @,
                         !.failed_count = IF deleted.returned THEN @ ELSE @ + 1,
                         !.index = IF deleted.returned THEN @ + 1
                                   ELSE Len(cur.plan_workouts) + 1]
    /\ UNCHANGED <<op, arg, ret, plan, pc>>

DeleteAllDelete ==
    /\ pc = "delete_all:delete"
    /\ cur.index <= Len(cur.plan_workouts)
    /\ \E result \in StatusResults :
        LET workout_id == Get(cur.plan_workouts[cur.index], "workoutId", 0)
            deleted == delete_workout(workout_id, result)
        IN  /\ calls' = Append(calls, deleted.call)
            /\ remote' = IF deleted.returned THEN Deleted(remote, workout_id) ELSE remote
            /\ cur' = [cur EXCEPT
                         !.deleted_count = IF deleted.returned THEN @ + 1 ELSE @,
                         !.failed_count = IF deleted.returned THEN @ ELSE @ + 1,
                         !.index = @ + 1]
    /\ UNCHANGED <<op, arg, ret, plan, pc>>

DeleteAllSummary ==
    /\ pc = "delete_all:delete"
    /\ cur.index > Len(cur.plan_workouts)
    /\ ret' = Ok([total_found |-> Len(cur.plan_workouts),
                  deleted_count |-> cur.deleted_count,
                  failed_count |-> cur.failed_count])
    /\ pc' = "done"
    /\ UNCHANGED <<op, arg, plan, remote, cur, calls>>

\* ------------------------------- update_week -------------------------------
\* f'Week {week_number}' in workout_name and 'NYC Marathon 2026' in workout_name
NamedForWeek(workout_name, week_number) ==
    /\ Contains(workout_name, Chars("Week ") \o IntToChars(week_number))
    /\ Contains(workout_name, PlanMarker)

\* validation (w['week'] of every entry, a KeyError where it is missing), the
\* lookup of week_data, and the week's date range
StartUpdateWeek ==
    /\ pc = "ready"
    /\ \E week_number \in {1, 2, 10} :
        /\ op' = "update_week" /\ arg' = [week_number |-> week_number]
        /\ LET keyed == \A i \in 1..Len(plan.weeks) : "week" \in DOMAIN plan.weeks[i]
               found == {i \in 1..Len(plan.weeks) : plan.weeks[i].week = week_number}
               week_start == calculate_week_start_date(plan, week_number)
           IN  IF ~keyed
               THEN pc' = "raised" /\ ret' = KeyError /\ cur' = cur
               ELSE IF found = {}
               THEN pc' = "returned" /\ ret' = Ok(None) /\ cur' = cur
               ELSE IF ~week_start.ok
               THEN pc' = "raised" /\ ret' = week_start /\ cur' = cur
               ELSE /\ cur' = [week_data |-> plan.weeks[CHOOSE i \in found :
                                                            \A j \in found : i <= j],
                               workouts |-> <<>>, index |-> 1, deleted_count |-> 0,
                               day_index |-> 1, uploaded_count |-> 0, failed_count |-> 0]
                    /\ pc' = "update_week:fetch" /\ ret' = ret
    /\ UNCHANGED <<plan, remote, calls>>

\* Step 1 begins: a fetch that raises, or that yields None (wrapped into
\* [None], on which .get raises), is caught and Step 2 follows
UpdateWeekFetch ==
    /\ pc = "update_week:fetch"
    /\ \E fetched \in FetchResults :
        /\ calls' = Append(calls, Call("get_workouts", 0, <<>>, <<>>, fetched))
        /\ IF fetched = "list"
           THEN cur' = [cur EXCEPT !.workouts = remote] /\ pc' = "update_week:delete"
           ELSE cur' = cur /\ pc' = "update_week:day"
    /\ UNCHANGED <<op, arg, ret, plan, remote>>

UpdateWeekDelete ==
    /\ pc = "update_week:delete"
    /\ cur.index <= Len(cur.workouts)
    /\ IF NamedForWeek(Get(cur.workouts[cur.index], "workoutName", <<>>), arg.week_number)
       THEN \E result \in StatusResults :
               LET workout_id == Get(cur.workouts[cur.index], "workoutId", 0)
                   deleted == delete_workout(workout_id, result)
               IN  /\ calls' = Append(calls, deleted.call)
                   /\ remote' = IF deleted.returned THEN Deleted(remote, workout_id)
                                                    ELSE remote
                   /\ cur' = [cur EXCEPT
                                !.deleted_count = IF deleted.returned THEN @ + 1 ELSE @,
                                !.index = @ + 1]
       ELSE cur' = [cur EXCEPT !.index = @ + 1] /\ UNCHANGED <<calls, remote>>
    /\ UNCHANGED <<op, arg, ret, plan, pc>>

UpdateWeekDeleted ==
    /\ pc = "update_week:delete"
    /\ cur.index > Len(cur.workouts)
    /\ pc' = "update_week:day"
    /\ UNCHANGED <<op, arg, ret, plan, remote, cur, calls>>

\* Step 2, one day of week_data['workouts']
UpdateWeekDay ==
    /\ pc = "update_week:day"
    /\ "workouts" \in DOMAIN cur.week_data
    /\ cur.day_index <= Len(cur.week_data.workouts)
    /\ \E item \in {cur.week_data.workouts[cur.day_index]} :
       \E workout_date \in {get_workout_date(plan, arg.week_number, item.day)} :
           IF ~workout_date.ok
           THEN pc' = "raised" /\ ret' = workout_date /\ UNCHANGED <<cur, calls, remote>>
           ELSE IF IsRest(item.workout)
           THEN /\ cur' = [cur EXCEPT !.day_index = @ + 1]
                /\ UNCHANGED <<pc, ret, calls, remote>>
           ELSE \E workout_json \in {build_workout_from_yaml(plan.paces, item.workout,
                                          workout_date.v, arg.week_number, item.day)},
                   up \in UploadResults, sc \in StatusResults :
                \E day \in {UploadDay(workout_json, workout_date.v, up, sc,
                                      NewId(remote, calls))} :
                        /\ cur' = [cur EXCEPT
                                     !.uploaded_count =
                                         IF day.status = "uploaded" THEN @ + 1 ELSE @,
                                     !.failed_count =
                                         IF day.status = "uploaded" THEN @ ELSE @ + 1,
                                     !.day_index = @ + 1]
                        /\ calls' = calls \o day.calls
                        /\ remote' = remote \o day.stored
                        /\ UNCHANGED <<pc, ret>>
    /\ UNCHANGED <<op, arg, plan>>

UpdateWeekSummary ==
    /\ pc = "update_week:day"
    /\ "workouts" \in DOMAIN cur.week_data
    /\ cur.day_index > Len(cur.week_data.workouts)
    /\ ret' = Ok([uploaded_count |-> cur.uploaded_count, failed_count |-> cur.failed_count])
    /\ pc' = "done"
    /\ UNCHANGED <<op, arg, plan, remote, cur, calls>>

\* --------------------------- plans and libraries ---------------------------
PlanPaces ==
    [lactate_threshold |-> Str("6:30"), general_aerobic |-> Str("8:30"),
     recovery |-> Str("9:15"), marathon_pace |-> Str("7:02")]

EasyRun == [type |-> "general_aerobic", distance |-> Num(5, 1)]
RestDay == [type |-> "rest"]
ThresholdRun ==
    [type |-> "lactate_threshold", description |-> "LT intervals",
     structure |-> [intervals |-> [work |-> [duration |-> Str("20-25 min"),
                                             pace |-> "lactate_threshold"],
                                   rest |-> [type |-> "jog"],
                                   repeat |-> 3]]]
\* a workout whose duration string does not parse
MalformedRun ==
    [type |-> "lactate_threshold", structure |-> [main |-> [duration |-> Str("soon")]]]

Day(day_name, workout) == [day |-> Chars(day_name), workout |-> workout]

DayLists ==
    {<<>>,
     <<Day("monday", EasyRun)>>,
     <<Day("tuesday", ThresholdRun), Day("wednesday", RestDay),
       Day("thursday", MalformedRun), Day("Saturday", EasyRun)>>,
     <<Day("tuesday", EasyRun), Day("funday", EasyRun), Day("thursday", EasyRun)>>,
     <<Day("monday", RestDay), Day("sunday", MalformedRun)>>}

\* the week entries of a plan file: all carry 'week' and 'workouts', one lacks 'block'
WeekEntries(week_number) ==
    {[week |-> week_number, block |-> "base", workouts |-> days] : days \in DayLists}
        \cup {[week |-> week_number, workouts |-> <<Day("monday", EasyRun)>>]}

PlanDocument(weeks) ==
    [goal_event |-> [name |-> "NYC Marathon", date |-> Chars("2026-11-01")],
     plan |-> [name |-> "Marathon plan"],
     paces |-> PlanPaces,
     weeks |-> weeks]

\* the entries a second week is drawn from: one lacks 'block', one lacks 'week'
LaterWeekEntries(week_number) ==
    {[week |-> week_number, block |-> "build", workouts |-> <<Day("sunday", EasyRun)>>],
     [week |-> week_number, block |-> "build",
      workouts |-> <<Day("wednesday", MalformedRun), Day("funday", EasyRun)>>],
     [week |-> week_number, workouts |-> <<>>],
     [block |-> "build", workouts |-> <<Day("sunday", EasyRun)>>]}

Plans ==
    {PlanDocument(<<w>>) : w \in WeekEntries(1)}
        \cup {PlanDocument(<<w, x>>) : w \in WeekEntries(1), x \in LaterWeekEntries(10)}
        \cup {[goal_event |-> [name |-> "NYC Marathon", date |-> Chars("2026-11-01")],
               plan |-> [name |-> "Marathon plan"],
               weeks |-> <<>>]}

Stored(workout_id, workout_name) ==
    [workoutId |-> workout_id, workoutName |-> Chars(workout_name)]

Libraries ==
    {<<>>,
     <<Stored(11, "NYC Marathon 2026 - Week 1 - Tuesday"),
       Stored(12, "NYC Marathon 2026 - Week 10 - Tuesday"),
       Stored(13, "Morning run")>>,
     <<[workoutId |-> 14], Stored(15, "NYC Marathon 2026 - Week 10 - Sunday")>>}

Init ==
    /\ op = "load_plan" /\ arg = EmptyDict /\ ret = Pending
    /\ plan \in Plans
    /\ remote \in Libraries
    /\ pc = "load"
    /\ cur = EmptyDict
    /\ calls = <<>>

Next ==
    \/ LoadPlan
    \/ StartUploadAll \/ UploadAllWeek \/ UploadAllDay \/ UploadAllWeekEnd \/ UploadAllSummary
    \/ StartDeleteAll \/ DeleteAllFetch \/ DeleteAllDelete \/ DeleteAllSummary
    \/ StartUpdateWeek \/ UpdateWeekFetch \/ UpdateWeekDelete \/ UpdateWeekDeleted
    \/ UpdateWeekDay \/ UpdateWeekSummary

Spec == Init /\ [][Next]_vars


\* ===================== export_activities.py: the report ====================

\* format_duration(seconds): 'H:MM:SS' from one hour on, 'M:SS' below
format_duration(seconds) ==
    LET hours == seconds \div 3600
        minutes == (seconds % 3600) \div 60
        secs == seconds % 60
        mmss == ZeroPad(IntToChars(secs), 2)
    IN  IF seconds = 0 THEN Chars("0:00")
        ELSE IF hours > 0
            THEN IntToChars(hours) \o <<":">> \o ZeroPad(IntToChars(minutes), 2) \o <<":">> \o mmss
        ELSE IntToChars(minutes) \o <<":">> \o mmss

\* format_pace(meters_per_second): 60 / (speed * 2.23694) minutes per mile as 'M:SS'
format_pace(meters_per_second) ==
    LET n == 6000000
        d == meters_per_second * 223694
    IN  IF meters_per_second = 0 THEN Chars("N/A")
        ELSE IntToChars(n \div d) \o <<":">> \o ZeroPad(IntToChars(((n % d) * 60) \div d), 2)

FeetPerMeterE5 == 328084

\* the lines written under '### Summary' for one activity
SummaryLines(activity) ==
    LET \* f.write(f"- **{label}:** {text}\n")
        Line(label, text) == <<[label |-> label, text |-> text]>>
        \* activity.get(key) is truthy
        Has(key) == key \in DOMAIN activity /\ activity[key] # 0
        \* f"{distance_mi:.2f}" of meters / 1609.34
        hundredths ==
            (2 * Get(activity, "distance", 0) * 5000 + MetersPerMile.n) \div (2 * MetersPerMile.n)
        distance_mi ==
            IntToChars(hundredths \div 100) \o <<".">> \o ZeroPad(IntToChars(hundredths % 100), 2)
    IN  Line("Distance", distance_mi \o Chars(" miles"))
        \o (IF Has("duration")
              THEN Line("Duration", format_duration(activity.duration)
                       \o (IF Has("movingDuration") /\ activity.movingDuration # activity.duration
                             THEN Chars(" (moving: ") \o format_duration(activity.movingDuration) \o <<")">>
                             ELSE <<>>))
              ELSE <<>>)
        \o (IF Has("averageSpeed")
              THEN Line("Average Pace", format_pace(activity.averageSpeed) \o Chars("/mile"))
              ELSE <<>>)
        \o (IF Has("averageHR")
              THEN Line("Heart Rate", IntToChars(activity.averageHR) \o Chars(" bpm avg")
                       \o (IF Has("maxHR")
                             THEN Chars(", ") \o IntToChars(activity.maxHR) \o Chars(" bpm max")
                             ELSE <<>>))
              ELSE <<>>)
        \o (IF Has("averageRunningCadenceInStepsPerMinute")
              THEN Line("Cadence", IntToChars(activity.averageRunningCadenceInStepsPerMinute) \o Chars(" spm"))
              ELSE <<>>)
        \o (IF Has("elevationGain")
              THEN Line("Elevation Gain", IntToChars((activity.elevationGain * FeetPerMeterE5) \div 100000) \o Chars(" ft"))
              ELSE <<>>)
        \o (IF Has("calories")
              THEN Line("Calories", IntToChars(activity.calories))
              ELSE <<>>)

(***************************************************************************)
(* Activities as the service returns them: each summary field missing or   *)
(* set, the distance and the elevation gain also zero; the moving duration *)
(* and the maximum heart rate come together.                               *)
(***************************************************************************)
MaxActivities == 2

Activities ==
    LET FieldValues ==
            [distance |-> <<0, 8046>>, duration |-> <<3725>>, movingDuration |-> <<3600>>,
             averageSpeed |-> <<3>>, averageHR |-> <<150>>, maxHR |-> <<175>>,
             averageRunningCadenceInStepsPerMinute |-> <<172>>, elevationGain |-> <<0, 100>>,
             calories |-> <<500>>]
        \* per key: 0 for a missing key, else the index of its value
        FieldChoices ==
            {c \in [DOMAIN FieldValues -> 0..2] :
                /\ \A key \in DOMAIN c : c[key] <= Len(FieldValues[key])
                /\ c.movingDuration = c.maxHR}
    IN  {[key \in {k \in DOMAIN c : c[k] > 0} |-> FieldValues[key][c[key]]] : c \in FieldChoices}

InitExport ==
    /\ op = "export_to_markdown" /\ arg = <<>> /\ ret = <<>>
    /\ cur = 0 /\ pc = "export:activity"
    /\ plan = <<>> /\ remote = <<>> /\ calls = <<>>

\* one round of 'for i, activity in enumerate(activities, 1)': ret is the
\* summary block written for activity number cur
ExportActivity ==
    /\ pc = "export:activity" /\ cur < MaxActivities
    /\ \E activity \in Activities :
        /\ arg' = activity
        /\ ret' = SummaryLines(activity)
    /\ cur' = cur + 1
    /\ UNCHANGED <<op, plan, remote, pc, calls>>

\* the list is exhausted: the file is closed
ExportReturn ==
    /\ pc = "export:activity"
    /\ pc' = "returned"
    /\ UNCHANGED <<op, arg, ret, plan, remote, cur, calls>>

NextExport ==
    \/ ExportActivity
    \/ ExportReturn

SpecExport == InitExport /\ [][NextExport]_vars

\* ============== One builder compiling workout after workout ================
\* The target dicts as objects: get_target_speed_zone and get_no_target
\* return a dict literal, a new object at every call, and
\* create_executable_step pops the target values out of the object it is
\* given and keeps a reference to it in the step.  cur.heap holds the
\* target objects made so far, a step's target being an index into it.

\* the leaf steps of a step list in their order, the children of a repeat
\* group in the group's place
RECURSIVE LeafSeq(_)
LeafSeq(steps) ==
    IF steps = <<>> THEN <<>>
    ELSE (IF Head(steps).type = "RepeatGroupDTO" THEN Head(steps).workoutSteps
                                                 ELSE <<Head(steps)>>) \o LeafSeq(Tail(steps))

\* a dict equal to one made before is that object again
Allocate_shared(heap, target) ==
    LET same == {r \in 1..Len(heap) : heap[r] = Pop(Pop(target, "targetValueOne"), "targetValueTwo")}
    IN  IF same = {} THEN [heap |-> Append(heap, target), ref |-> Len(heap) + 1]
        ELSE LET r == CHOOSE r \in same : TRUE
             IN  [heap |-> [heap EXCEPT ![r] = target], ref |-> r]

\* return {...}: a new dict object holding target
Allocate(heap, target) == [heap |-> Append(heap, target), ref |-> Len(heap) + 1]

\* the steps made one after the other on the heap.  made holds the steps as
\* read through their target objects, refs the objects they refer to.
RECURSIVE CreateSteps(_, _)
CreateSteps(leaves, state) ==
    IF leaves = <<>> THEN state
    ELSE LET leaf == Head(leaves)
             \* the dict the step's target call returned
             target == leaf.targetType
                         @@ (IF "targetValueOne" \in DOMAIN leaf
                                THEN [targetValueOne |-> leaf.targetValueOne] ELSE EmptyDict)
                         @@ (IF "targetValueTwo" \in DOMAIN leaf
                                THEN [targetValueTwo |-> leaf.targetValueTwo] ELSE EmptyDict)
             new == Allocate(state.heap, target)
             object == new.heap[new.ref]
             step == StepDict(leaf.stepOrder, leaf.stepType.stepTypeId, leaf.stepType.stepTypeKey,
                              leaf.endCondition.conditionTypeId,
                              leaf.endCondition.conditionTypeKey, leaf.endConditionValue, object)
         IN  CreateSteps(Tail(leaves),
                 [heap |-> [new.heap EXCEPT ![new.ref] =
                               Pop(Pop(object, "targetValueOne"), "targetValueTwo")],
                  made |-> Append(state.made, step),
                  refs |-> Append(state.refs, new.ref)])

MaxCompiles == 3

\* a zone the table lacks in the warmup, intervals with a jog, a cooldown
TempoRun ==
    [type |-> "tempo", description |-> "Tempo",
     structure |-> [warmup |-> [distance |-> Num(2, 1), pace |-> "tempo"],
                    intervals |-> [work |-> [distance |-> Num(800, 1), pace |-> "lactate_threshold"],
                                   rest |-> [type |-> "jog", duration |-> Str("90 sec")],
                                   repeat |-> 4],
                    cooldown |-> [distance |-> Num(1, 1), pace |-> "recovery"]]]

InitBuilder ==
    /\ op = "build_workout_from_yaml" /\ arg = EmptyDict /\ ret = Pending
    /\ plan = [paces |-> PlanPaces]
    /\ cur = [heap |-> <<>>]
    /\ calls = <<>> /\ remote = <<>> /\ pc = "builder"

\* build_workout_from_yaml on one workout; calls keeps what each call was
\* given and what it returned
CompileWorkout ==
    /\ pc = "builder" /\ Len(calls) < MaxCompiles
    /\ \E workout_data \in {EasyRun, RestDay, ThresholdRun, MalformedRun, TempoRun} :
       \E workout_json \in {build_workout_from_yaml(plan.paces, workout_data, <<>>, 1,
                                                    Chars("monday"))} :
       \E created \in {IF workout_json.ok
                         THEN CreateSteps(LeafSeq(StepsOf(workout_json.v)),
                                          [heap |-> cur.heap, made |-> <<>>, refs |-> <<>>])
                         ELSE [heap |-> cur.heap, made |-> <<>>, refs |-> <<>>]} :
           /\ arg' = workout_data
           /\ ret' = workout_json
           /\ cur' = [heap |-> created.heap]
           /\ calls' = Append(calls, [workout_data |-> workout_data, workout_json |-> workout_json,
                                      steps |-> created.made, refs |-> created.refs])
    /\ UNCHANGED <<op, plan, remote, pc>>

NextBuilder == CompileWorkout

SpecBuilder == InitBuilder /\ [][NextBuilder]_vars
\* ======================= Claims about the converters ======================

(***************************************************************************)
(* C4: parse_distance and parse_duration return the value of the largest   *)
(* bound of a hyphen-delimited range, whatever the order and the number of *)
(* the bounds.  The value of a bound is what the same parser returns for   *)
(* that bound alone, with the range's unit suffix.                         *)
(***************************************************************************)
Converter(x) == IF op = "parse_distance" THEN parse_distance(x) ELSE parse_duration(x)

BoundOf(i) == Converter(RangeStr(<<arg.toks[i]>>, arg.unit))

C4_RangeSelectsMaximum ==
    (op \in {"parse_distance", "parse_duration"} /\ Len(arg.toks) >= 2 /\ ret.ok)
        => \A i \in 1..Len(arg.toks) : BoundOf(i).ok => ~RLess(ret.v, BoundOf(i).v)

\* ====================== Claims about the step compiler ======================

\* what the claims read in a state of SpecBuild
Compiled == op = "build_workout_from_yaml" /\ ret.ok
Structure == Get(arg.workout, "structure", EmptyDict)
HasIntervals == "intervals" \in DOMAIN Structure
Intervals == Get(Structure, "intervals", EmptyDict)
Work == Get(Intervals, "work", EmptyDict)
Rest == Get(Intervals, "rest", EmptyDict)
TopSteps == StepsOf(ret.v)
IsGroup(step) == step.type = "RepeatGroupDTO"
Groups == {i \in 1..Len(TopSteps) : IsGroup(TopSteps[i])}
TheGroup == TopSteps[CHOOSE i \in Groups : TRUE]
Children == TheGroup.workoutSteps

\* every leaf step of the output: the top-level leaves and the groups' children
Leaves ==
    {TopSteps[i] : i \in (1..Len(TopSteps)) \ Groups}
        \cup UNION {{TopSteps[i].workoutSteps[j] : j \in 1..Len(TopSteps[i].workoutSteps)} :
                    i \in Groups}

(***************************************************************************)
(* C1: a compiled structured workout with an 'intervals' phase has exactly *)
(* one repeat group at top level, whose numberOfIterations is the phase's  *)
(* 'repeat' field (1 when absent), and no leaf step of the output carries  *)
(* target type id 4 (heart rate).                                          *)
(***************************************************************************)
C1_OneRepeatGroup ==
    (Compiled /\ HasIntervals) =>
        /\ Cardinality(Groups) = 1
        /\ TheGroup.numberOfIterations = Get(Intervals, "repeat", 1)
        /\ \A leaf \in Leaves : leaf.targetType.workoutTargetTypeId # 4

C1_Witness ==
    /\ Compiled /\ HasIntervals
    /\ "warmup" \in DOMAIN Structure /\ "main" \in DOMAIN Structure
    /\ Get(Intervals, "repeat", 1) = 3
    /\ \E leaf \in Leaves : leaf.targetType.workoutTargetTypeId = 6

(***************************************************************************)
(* C7: given a workout of type 'rest', build_workout_from_yaml returns a   *)
(* document whose workoutSteps list is empty, with or without a distance.  *)
(***************************************************************************)
C7_RestCompilesToNoSteps ==
    (Compiled /\ Get(arg.workout, "type", "") = "rest") => TopSteps = <<>>

(***************************************************************************)
(* C8: in every compiled workout the top-level steps carry stepOrder       *)
(* 1, 2, ..., N in list order, and the children of a repeat group carry    *)
(* 1..M in list order.                                                     *)
(***************************************************************************)
C8_StepOrderSequential ==
    Compiled =>
        /\ \A i \in 1..Len(TopSteps) : TopSteps[i].stepOrder = i
        /\ \A g \in Groups :
               \A j \in 1..Len(TopSteps[g].workoutSteps) :
                   TopSteps[g].workoutSteps[j].stepOrder = j

(***************************************************************************)
(* C9: the work leaf of an intervals phase whose work spec has no duration *)
(* is distance-terminated, and its end value is 600 when no distance is    *)
(* given, the given distance when unit is 'meters', and otherwise the      *)
(* given distance times 1609.34.                                           *)
(***************************************************************************)
C9_WorkDistanceInMeters ==
    (Compiled /\ HasIntervals /\ "duration" \notin DOMAIN Work) =>
        /\ Children[1].endCondition = [conditionTypeId |-> 3, conditionTypeKey |-> "distance"]
        /\ Children[1].endConditionValue =
               IF "distance" \notin DOMAIN Work THEN RI(600)
               ELSE IF Get(Work, "unit", "") = "meters" THEN Work.distance.v
               ELSE MilesToMeters(Work.distance.v)

(***************************************************************************)
(* C10: the children of the repeat group are the work leaf (order 1, role  *)
(* interval), followed by a recovery leaf (order 2, role recovery) exactly *)
(* when the rest phase's type is 'jog'; the recovery leaf is               *)
(* time-terminated with the parsed rest duration, 150 seconds when none is *)
(* given, and has the no-target type and no target values.  The workout    *)
(* of the specification's example compiles to one group of 3 iterations    *)
(* holding a 1500-second pace-targeted work leaf and a 150-second          *)
(* untargeted recovery leaf.                                               *)
(***************************************************************************)
Untargeted(leaf) ==
    /\ leaf.targetType = get_no_target
    /\ "targetValueOne" \notin DOMAIN leaf /\ "targetValueTwo" \notin DOMAIN leaf

IsRecoveryLeaf(leaf, seconds) ==
    /\ leaf.type = "ExecutableStepDTO" /\ leaf.stepOrder = 2
    /\ leaf.stepType = [stepTypeId |-> 4, stepTypeKey |-> "recovery"]
    /\ leaf.endCondition = [conditionTypeId |-> 2, conditionTypeKey |-> "time"]
    /\ leaf.endConditionValue = seconds
    /\ Untargeted(leaf)

IsWorkLeaf(leaf) ==
    /\ leaf.type = "ExecutableStepDTO" /\ leaf.stepOrder = 1
    /\ leaf.stepType = [stepTypeId |-> 3, stepTypeKey |-> "interval"]

ExampleWorkout ==
    [type |-> "lactate_threshold", description |-> "LT intervals",
     structure |-> [intervals |-> [work |-> [duration |-> Str("20-25 min"),
                                             pace |-> "lactate_threshold"],
                                   rest |-> [type |-> "jog"],
                                   repeat |-> 3]]]

ExamplePaces == [lactate_threshold |-> Str("6:30")]

IsExample == arg.workout = ExampleWorkout /\ arg.paces = ExamplePaces

ExampleCompiled ==
    /\ ret.ok
    /\ Len(TopSteps) = 1 /\ IsGroup(TopSteps[1]) /\ TopSteps[1].numberOfIterations = 3
    /\ Len(Children) = 2
    /\ IsWorkLeaf(Children[1])
    /\ Children[1].endCondition = [conditionTypeId |-> 2, conditionTypeKey |-> "time"]
    /\ Children[1].endConditionValue = RI(1500)
    /\ Children[1].targetType.workoutTargetTypeId = 6
    /\ "targetValueOne" \in DOMAIN Children[1]
    /\ IsRecoveryLeaf(Children[2], RI(150))

C10_RepeatGroupChildren ==
    /\ (Compiled /\ HasIntervals) =>
           /\ IsWorkLeaf(Children[1])
           /\ Len(Children) = (IF Get(Rest, "type", "") = "jog" THEN 2 ELSE 1)
           /\ Len(Children) = 2 =>
                  IsRecoveryLeaf(Children[2],
                                 IF "duration" \in DOMAIN Rest
                                     THEN parse_duration(Rest.duration).v
                                     ELSE RI(150))
    /\ (op = "build_workout_from_yaml" /\ IsExample /\ ret # Pending) => ExampleCompiled

C10_Witness == Compiled /\ IsExample /\ ExampleCompiled

\* ==================== Claims about the schedule calculator ===================

GoalDate == parse_date(plan.goal_event.date).v
DayIs(name) == Lower(arg.day) = Chars(name)
Date(y, m, d) == [y |-> y, m |-> m, d |-> d]
IsNovember1st2026 == plan.goal_event.date = Chars("2026-11-01")

(***************************************************************************)
(* C5: with goal date 2026-11-01 and the 19-week span,                     *)
(* calculate_week_start_date(1) is 2026-06-29 and                          *)
(* get_workout_date(1, 'tuesday') is 2026-06-30.                           *)
(***************************************************************************)
C5_WeekOneStartsJune29 ==
    (IsNovember1st2026 /\ arg.week = 1 /\ ret # Pending) =>
        /\ op = "calculate_week_start_date" => ret = Ok(Date(2026, 6, 29))
        /\ (op = "get_workout_date" /\ DayIs("tuesday")) => ret = Ok(Date(2026, 6, 30))

(***************************************************************************)
(* C6: the week start is the goal date minus 7*(19 - w) days minus 6 days, *)
(* a function of the goal date and the week number alone;                  *)
(* get_workout_date(19, 'sunday') is the goal date, and                    *)
(* get_workout_date(w, 'monday') is calculate_week_start_date(w).          *)
(***************************************************************************)
C6_WeekStartFormula ==
    ret # Pending =>
        /\ op = "calculate_week_start_date" =>
               /\ ret.ok
               /\ ret.v.m \in 1..12 /\ ret.v.d \in 1..DaysInMonth(ret.v.y, ret.v.m)
               /\ ToOrdinal(GoalDate) - ToOrdinal(ret.v) = 7 * (19 - arg.week) + 6
        /\ (op = "get_workout_date" /\ arg.week = 19 /\ DayIs("sunday")) => ret = Ok(GoalDate)
        /\ (op = "get_workout_date" /\ DayIs("monday")) =>
               ret = calculate_week_start_date(plan, arg.week)

C6_Witness ==
    /\ op = "get_workout_date" /\ arg.week = 19 /\ arg.day = Chars("SUNDAY")
    /\ plan.goal_event.date = Chars("2024-03-03")
    /\ ret = Ok(Date(2024, 3, 3))

\* ===================== Claims about the batch operations ====================

\* the plan's days, flattened in plan order
RECURSIVE PlanDays(_)
PlanDays(weeks) ==
    IF weeks = <<>> THEN <<>>
    ELSE [i \in 1..Len(Head(weeks).workouts) |->
             [week |-> Get(Head(weeks), "week", 0),
              day |-> Head(weeks).workouts[i].day,
              workout |-> Head(weeks).workouts[i].workout]]
         \o PlanDays(Tail(weeks))

NonRestDays == SelectSeq(PlanDays(plan.weeks), LAMBDA e : ~IsRest(e.workout))
CompileOf(e) == build_workout_from_yaml(plan.paces, e.workout, <<>>, e.week, e.day)
CompilableDays == SelectSeq(NonRestDays, LAMBDA e : CompileOf(e).ok)
ExpectedUploads == [i \in 1..Len(CompilableDays) |-> CompileOf(CompilableDays[i]).v.workoutName]
Uploads == SelectSeq(calls, LAMBDA c : c.call = "upload_workout")
UploadedNames == [i \in 1..Len(Uploads) |-> Uploads[i].name]
CompileFailures == Len(NonRestDays) - Len(CompilableDays)
FailedUploads == Len(SelectSeq(Uploads, LAMBDA c : c.result \in {"none", "raises"}))
IsPrefix(s, t) == Len(s) <= Len(t) /\ s = SubSeq(t, 1, Len(s))

(***************************************************************************)
(* C2: upload_all tolerates partial failure, for any plan.  When K of the  *)
(* plan's N non-rest workouts fail, by a compile error or by an upload     *)
(* call that raises or returns nothing, the operation does not raise, the  *)
(* other non-rest workouts are each uploaded once, in plan order, and the  *)
(* summary reports N workouts in total and N - K uploaded.                 *)
(***************************************************************************)
C2_UploadAllTolerant ==
    op = "upload_all" =>
        /\ pc # "raised"
        /\ IsPrefix(UploadedNames, ExpectedUploads)
        /\ pc = "done" =>
               /\ ret.ok
               /\ UploadedNames = ExpectedUploads
               /\ ret.v.total_workouts = Len(NonRestDays)
               /\ ret.v.uploaded_workouts =
                      Len(NonRestDays) - (CompileFailures + FailedUploads)

(***************************************************************************)
(* C3: upload_all, delete_all and update_week never let an exception       *)
(* escape to their caller, whatever the loaded plan holds and however the  *)
(* remote calls behave.                                                    *)
(***************************************************************************)
C3_NoExceptionEscapes ==
    op \in {"upload_all", "delete_all", "update_week"} => pc # "raised"

\* ==================== Claims about targets and phases =======================

Building == op = "build_workout_from_yaml"
Resolving == op = "get_target_speed_zone"
Phase(name) == Get(Structure, name, EmptyDict)
IsStructured == "structure" \in DOMAIN arg.workout

\* the zone names a workout makes the compiler resolve: the 'pace' of each
\* compiled phase, or the phase's default zone
ReferencedZones ==
    IF IsStructured
    THEN (IF "warmup" \in DOMAIN Structure
              THEN {Get(Phase("warmup"), "pace", "general_aerobic")} ELSE {})
         \cup (IF HasIntervals
                   THEN {Get(Work, "pace", IF "duration" \in DOMAIN Work
                                               THEN "lactate_threshold" ELSE "vo2max")}
               ELSE IF "main" \notin DOMAIN Structure THEN {}
               ELSE IF "duration" \in DOMAIN Phase("main")
                   THEN {Get(Phase("main"), "pace", "lactate_threshold")}
               ELSE IF "distance" \in DOMAIN Phase("main")
                   THEN {Get(Phase("main"), "pace", "marathon_pace")}
               ELSE {})
         \cup (IF "cooldown" \in DOMAIN Structure
                   THEN {Get(Phase("cooldown"), "pace", "general_aerobic")} ELSE {})
    ELSE LET type == Get(arg.workout, "type", "general_aerobic")
         IN  {CASE type \in {"recovery", "general_aerobic", "lactate_threshold", "vo2max"} -> type
                [] type \in {"endurance", "medium_long_run", "long_run"} -> "endurance"
                [] type = "marathon_pace_run" -> "marathon_pace"
                [] OTHER -> "general_aerobic"}

\* every distance and duration the workout carries parses, and a work
\* distance is a number
DistancesOf(d) == IF "distance" \in DOMAIN d THEN {d.distance} ELSE {}
DurationsOf(d) == IF "duration" \in DOMAIN d THEN {d.duration} ELSE {}
FieldsParse ==
    /\ \A x \in DistancesOf(arg.workout) \cup DistancesOf(Phase("warmup"))
                \cup DistancesOf(Phase("main")) \cup DistancesOf(Phase("cooldown")) :
           parse_distance(x).ok
    /\ \A x \in DurationsOf(Work) \cup DurationsOf(Rest) \cup DurationsOf(Phase("main")) :
           parse_duration(x).ok
    /\ \A x \in DistancesOf(Work) : x.k = "num"

NoTargetShape == [workoutTargetTypeId |-> 1, workoutTargetTypeKey |-> "no.target"]

(***************************************************************************)
(* C11: get_target_speed_zone, given a zone name absent from the pace      *)
(* table, does not fail and returns the no-target shape (id 1, key         *)
(* 'no.target', no target values); and a workout that references only      *)
(* zones absent from the table compiles, to steps that are all untargeted. *)
(***************************************************************************)
C11_UnknownZoneIsNoTarget ==
    /\ (Resolving /\ ret # Pending /\ arg.zone \notin DOMAIN arg.paces) =>
           ret = Ok(NoTargetShape)
    /\ (Building /\ ret # Pending /\ FieldsParse
            /\ ReferencedZones \cap DOMAIN arg.paces = {}) =>
           /\ ret.ok
           /\ \A leaf \in Leaves : leaf.targetType = NoTargetShape /\ Untargeted(leaf)

C11_Witness ==
    /\ Compiled /\ FieldsParse
    /\ "tempo" \in ReferencedZones /\ Cardinality(ReferencedZones) = 3
    /\ ReferencedZones \cap DOMAIN arg.paces = {}
    /\ Cardinality(Leaves) = 4

\* which phase a top-level step was compiled from
PhaseOf(step) ==
    IF IsGroup(step) THEN "intervals"
    ELSE CASE step.stepType.stepTypeKey = "warmup" -> "warmup"
           [] step.stepType.stepTypeKey = "cooldown" -> "cooldown"
           [] step.stepType.stepTypeKey = "interval" -> "main"
           [] OTHER -> "none"

PhaseSeq == [i \in 1..Len(TopSteps) |-> PhaseOf(TopSteps[i])]
IfPresent(name) == IF name \in DOMAIN Structure THEN <<name>> ELSE <<>>

(***************************************************************************)
(* C12: the top-level steps of a compiled structured workout are, in this  *)
(* order, the warmup step, then the intervals repeat group or the main     *)
(* step, then the cooldown step, each only if its phase is present; with   *)
(* both 'intervals' and 'main' present there is no step for 'main'.        *)
(***************************************************************************)
C12_PhaseOrder ==
    (Compiled /\ IsStructured) =>
        \E middle \in IF HasIntervals THEN {<<"intervals">>}
                      ELSE {<<>>, IfPresent("main")} :
            PhaseSeq = IfPresent("warmup") \o middle \o IfPresent("cooldown")

C12_Witness ==
    /\ Compiled /\ IsStructured
    /\ {"warmup", "intervals", "main", "cooldown"} \subseteq DOMAIN Structure
    /\ DOMAIN Phase("main") # {}
    /\ PhaseSeq = <<"warmup", "intervals", "cooldown">>

\* the single zone an unstructured workout's type stands for
TypeZone == CHOOSE zone \in ReferencedZones : TRUE

\* the one leaf an unstructured workout is to compile to, for a distance in miles
SimpleLeaf(miles) ==
    create_executable_step(1, 3, "interval", 3, "distance", MilesToMeters(miles),
                           get_target_speed_zone(arg.paces, TypeZone).v)

DistanceGiven == "distance" \in DOMAIN arg.workout
DistanceIsEmpty == DistanceGiven /\ arg.workout.distance \in {Num(0, 1), Str("")}

(***************************************************************************)
(* C13 as stated: a compiled workout without a structured description has  *)
(* exactly one leaf step, distance-terminated with the parsed distance in  *)
(* miles times 1609.34, 5 miles when no distance is given, and targeted by *)
(* the zone the type table gives (general_aerobic for any other type).     *)
(***************************************************************************)
C13_SingleStepAsStated ==
    (Compiled /\ ~IsStructured) =>
        LET miles == IF DistanceGiven THEN parse_distance(arg.workout.distance)
                                      ELSE Ok(RI(5))
        IN  miles.ok /\ TopSteps = <<SimpleLeaf(miles.v)>>

(***************************************************************************)
(* C13 amended: the same, with the 5 miles also standing in for a given    *)
(* distance that is 0 or the empty string.                                 *)
(***************************************************************************)
C13_SingleStep ==
    (Compiled /\ ~IsStructured) =>
        LET miles == IF DistanceGiven /\ ~DistanceIsEmpty
                         THEN parse_distance(arg.workout.distance)
                         ELSE Ok(RI(5))
        IN  miles.ok /\ TopSteps = <<SimpleLeaf(miles.v)>>

C13_Witness ==
    /\ Compiled /\ ~IsStructured
    /\ Get(arg.workout, "type", "") = "marathon_pace_run"
    /\ DistanceGiven /\ arg.workout.distance = Str("8-9")
    /\ "marathon_pace" \in DOMAIN arg.paces
    /\ TopSteps[1].targetType.workoutTargetTypeId = 6
    /\ TopSteps[1].endConditionValue = MilesToMeters(RI(9))

\* the leaf with its target replaced by the one the zone resolves to
Retargeted(leaf, zone) ==
    create_executable_step(leaf.stepOrder, leaf.stepType.stepTypeId, leaf.stepType.stepTypeKey,
                           leaf.endCondition.conditionTypeId,
                           leaf.endCondition.conditionTypeKey, leaf.endConditionValue,
                           get_target_speed_zone(arg.paces, zone).v)

\* the leaf is targeted by the phase's 'pace' zone, or by default_zone
TargetedBy(leaf, phase, default_zone) == leaf = Retargeted(leaf, Get(phase, "pace", default_zone))

TimeEnd == [conditionTypeId |-> 2, conditionTypeKey |-> "time"]
DistanceEnd == [conditionTypeId |-> 3, conditionTypeKey |-> "distance"]
MainSteps == SelectSeq(TopSteps, LAMBDA step : PhaseOf(step) = "main")

(***************************************************************************)
(* C14: a compiled structure with a 'main' phase and no 'intervals' phase  *)
(* has exactly one leaf for main, whatever fields main carries:            *)
(* time-terminated with the parsed duration and default zone               *)
(* lactate_threshold when 'duration' is present, otherwise                 *)
(* distance-terminated with default zone marathon_pace.                    *)
(***************************************************************************)
C14_MainIsOneLeaf ==
    (Compiled /\ IsStructured /\ "main" \in DOMAIN Structure /\ ~HasIntervals) =>
        /\ Len(MainSteps) = 1
        /\ IF "duration" \in DOMAIN Phase("main")
           THEN /\ MainSteps[1].endCondition = TimeEnd
                /\ MainSteps[1].endConditionValue = parse_duration(Phase("main").duration).v
                /\ TargetedBy(MainSteps[1], Phase("main"), "lactate_threshold")
           ELSE /\ MainSteps[1].endCondition = DistanceEnd
                /\ "distance" \in DOMAIN Phase("main") =>
                       MainSteps[1].endConditionValue =
                           MilesToMeters(parse_distance(Phase("main").distance).v)
                /\ TargetedBy(MainSteps[1], Phase("main"), "marathon_pace")

\* the leaf compiled from a warmup or cooldown phase is as C15 says
IsEasyLeaf(leaf, phase, type_id, type_key) ==
    /\ leaf.type = "ExecutableStepDTO"
    /\ leaf.stepType = [stepTypeId |-> type_id, stepTypeKey |-> type_key]
    /\ leaf.endCondition = DistanceEnd
    /\ leaf.endConditionValue =
           MilesToMeters(parse_distance(Get(phase, "distance", Num(2, 1))).v)
    /\ TargetedBy(leaf, phase, "general_aerobic")

StepsFrom(name) == SelectSeq(TopSteps, LAMBDA step : PhaseOf(step) = name)

(***************************************************************************)
(* C15: in a compiled structure a warmup phase and a cooldown phase each   *)
(* compile to one distance-terminated leaf (end condition id 3), of role   *)
(* warmup (id 1) and cooldown (id 2), whose distance is the phase's parsed *)
(* distance, or 2 miles when it has none, and whose target is resolved     *)
(* from the phase's 'pace' zone, or from general_aerobic; a 'duration'     *)
(* field changes nothing.                                                  *)
(***************************************************************************)
C15_WarmupCooldownByDistance ==
    (Compiled /\ IsStructured) =>
        /\ "warmup" \in DOMAIN Structure =>
               /\ Len(StepsFrom("warmup")) = 1
               /\ IsEasyLeaf(StepsFrom("warmup")[1], Phase("warmup"), 1, "warmup")
        /\ "cooldown" \in DOMAIN Structure =>
               /\ Len(StepsFrom("cooldown")) = 1
               /\ IsEasyLeaf(StepsFrom("cooldown")[1], Phase("cooldown"), 2, "cooldown")

C15_Witness ==
    /\ Compiled /\ IsStructured
    /\ "warmup" \in DOMAIN Structure /\ "duration" \in DOMAIN Phase("warmup")
    /\ "cooldown" \in DOMAIN Structure /\ "duration" \in DOMAIN Phase("cooldown")
    /\ TopSteps[1].endConditionValue = MilesToMeters(RI(2))
    /\ TopSteps[Len(TopSteps)].endCondition = DistanceEnd
    /\ TopSteps[1].targetType.workoutTargetTypeId = 6


StepTypes ==
    {[stepTypeId |-> 1, stepTypeKey |-> "warmup"], [stepTypeId |-> 2, stepTypeKey |-> "cooldown"],
     [stepTypeId |-> 3, stepTypeKey |-> "interval"], [stepTypeId |-> 4, stepTypeKey |-> "recovery"]}
PaceZoneTarget == [workoutTargetTypeId |-> 6, workoutTargetTypeKey |-> "pace.zone"]
HasTargetValues(leaf) == "targetValueOne" \in DOMAIN leaf /\ "targetValueTwo" \in DOMAIN leaf
HasNoTargetValue(leaf) == "targetValueOne" \notin DOMAIN leaf /\ "targetValueTwo" \notin DOMAIN leaf

\* the speeds the paces of the table stand for
ZoneSpeeds ==
    {pace_to_speed(arg.paces[zone]).v :
        zone \in {z \in DOMAIN arg.paces : pace_to_speed(arg.paces[z]).ok}}

\* the leaf's target values are 0.95 and 1.05 times the speed
IsSpeedRange(leaf, speed) ==
    /\ leaf.targetValueOne = RMul(speed, Rat(95, 100))
    /\ leaf.targetValueTwo = RMul(speed, Rat(105, 100))
    /\ RLess(leaf.targetValueOne, leaf.targetValueTwo)

(***************************************************************************)
(* C20: every leaf step of every compiled workout has a step type among    *)
(* (1,warmup), (2,cooldown), (3,interval), (4,recovery), an end condition  *)
(* among (2,time), (3,distance), and the target type (1,no.target) or      *)
(* (6,pace.zone); targetValueOne and targetValueTwo are keys of the step,  *)
(* never of targetType, exactly when the target type id is 6, and are then *)
(* 0.95 and 1.05 times the speed of one of the table's paces.              *)
(***************************************************************************)
C20_LeafEnumerations ==
    Compiled => \A leaf \in Leaves :
        /\ leaf.stepType \in StepTypes
        /\ leaf.endCondition \in {TimeEnd, DistanceEnd}
        /\ leaf.targetType \in {get_no_target, PaceZoneTarget}
        /\ IF leaf.targetType = PaceZoneTarget
               THEN HasTargetValues(leaf) /\ \E speed \in ZoneSpeeds : IsSpeedRange(leaf, speed)
               ELSE HasNoTargetValue(leaf)

\* a compiled workout with a repeat group, a pace-targeted leaf and an untargeted leaf
C20_Witness ==
    /\ Compiled /\ Groups # {}
    /\ \E leaf \in Leaves : leaf.targetType = PaceZoneTarget /\ HasTargetValues(leaf)
    /\ \E leaf \in Leaves : leaf.targetType = get_no_target /\ HasNoTargetValue(leaf)
\* ============== More claims about the calculator and converters =============

Weekdays == <<"monday", "tuesday", "wednesday", "thursday", "friday", "saturday", "sunday">>
IsWeekday(day_name) == \E i \in 1..7 : Lower(day_name) = Chars(Weekdays[i])
OffsetOf(day_name) == (CHOOSE i \in 1..7 : Lower(day_name) = Chars(Weekdays[i])) - 1

(***************************************************************************)
(* C16: get_workout_date(week, day) is calculate_week_start_date(week)     *)
(* plus monday=0, tuesday=1, ..., sunday=6 days for the seven weekday      *)
(* names in any letter case, and fails with a ValueError, returning no     *)
(* date, for every other name.                                             *)
(***************************************************************************)
C16_WeekdayOffsets ==
    (op = "get_workout_date" /\ ret # Pending) =>
        IF IsWeekday(arg.day)
        THEN /\ ret.ok
             /\ ToOrdinal(ret.v) =
                    ToOrdinal(calculate_week_start_date(plan, arg.week).v) + OffsetOf(arg.day)
        ELSE ret = ValueError

C16_Witness ==
    /\ op = "get_workout_date" /\ arg.day = Chars("Tuesday") /\ arg.week = 1
    /\ IsNovember1st2026
    /\ ret = Ok(Date(2026, 6, 23))

PaceParts == Split(arg.x.s, ":")
\* exactly two colon-delimited parts, both integers
IsWellFormedPace ==
    /\ arg.x.k = "str"
    /\ Len(PaceParts) = 2
    /\ PyInt(PaceParts[1]).ok /\ PyInt(PaceParts[2]).ok
PaceSeconds == PyInt(PaceParts[1]).v * 60 + PyInt(PaceParts[2]).v

(***************************************************************************)
(* C17: pace_to_speed fails for every pace string that does not split into *)
(* exactly two colon-delimited integer parts (one part, three or more      *)
(* parts, a non-integer part), and for a well-formed 'M:SS' returns        *)
(* 1609.34 / (M*60 + SS).                                                  *)
(***************************************************************************)
C17_PaceNeedsTwoParts ==
    (op = "pace_to_speed" /\ ret # Pending) =>
        IF ~IsWellFormedPace THEN ~ret.ok
        ELSE PaceSeconds > 0 => ret = Ok(RDivInt(MetersPerMile, PaceSeconds))

HasSuffix(s, t) == Len(s) >= Len(t) /\ SubSeq(s, Len(s) - Len(t) + 1, Len(s)) = t
DropSuffix(s, t) == Strip(SubSeq(s, 1, Len(s) - Len(t)))
ColonFields(s) == Split(s, ":")
AllIntegers(parts) == \A i \in 1..Len(parts) : AllDigits(parts[i])
Truncated(f) == Ok(RI(RInt(f)))

\* what the listed forms stand for: Ok(seconds), or ValueError for no form
SecondsOfForm(x) ==
    IF x.k = "num" THEN Truncated(x.v)
    ELSE Bind(Lower(Strip(x.s)), LAMBDA s :
        IF HasSuffix(s, Chars("min")) /\ PyFloat(DropSuffix(s, Chars("min"))).ok
            THEN Truncated(RMul(PyFloat(DropSuffix(s, Chars("min"))).v, RI(60)))
        ELSE IF HasSuffix(s, Chars("sec")) /\ PyFloat(DropSuffix(s, Chars("sec"))).ok
            THEN Truncated(PyFloat(DropSuffix(s, Chars("sec"))).v)
        ELSE IF Len(ColonFields(s)) = 3 /\ AllIntegers(ColonFields(s))
            THEN Ok(RI(DecVal(ColonFields(s)[1]) * 3600 + DecVal(ColonFields(s)[2]) * 60
                       + DecVal(ColonFields(s)[3])))
        ELSE IF Len(ColonFields(s)) = 2 /\ AllIntegers(ColonFields(s))
            THEN Ok(RI(DecVal(ColonFields(s)[1]) * 60 + DecVal(ColonFields(s)[2])))
        ELSE IF PyFloat(s).ok THEN Truncated(PyFloat(s).v)
        ELSE ValueError)

IsRange(x) == x.k = "str" /\ Contains(x.s, <<"-">>)

(***************************************************************************)
(* C18: parse_duration accepts '<number> min', '<number> sec', 'HH:MM:SS', *)
(* 'MM:SS' and a bare number of seconds, given as a number or as a numeric *)
(* string, and returns integer seconds truncated toward zero; every other  *)
(* input fails instead of returning a value.  Hyphenated ranges are the    *)
(* subject of C4 and are left aside here.                                  *)
(***************************************************************************)
C18_DurationForms ==
    (op = "parse_duration" /\ ret # Pending /\ ~IsRange(arg.x)) =>
        IF SecondsOfForm(arg.x).ok THEN ret = SecondsOfForm(arg.x) ELSE ~ret.ok

\* ========================= Claims about the report =========================

Exported == op = "export_to_markdown" /\ cur > 0

\* the summary fields and the activity key each one is read from
SummaryFields ==
    {<<"Distance", "distance">>, <<"Duration", "duration">>,
     <<"Average Pace", "averageSpeed">>, <<"Heart Rate", "averageHR">>,
     <<"Cadence", "averageRunningCadenceInStepsPerMinute">>,
     <<"Elevation Gain", "elevationGain">>, <<"Calories", "calories">>}

HasLine(label) == \E i \in 1..Len(ret) : ret[i].label = label

(***************************************************************************)
(* C19: in the exported report, the summary line of a field (distance,     *)
(* duration, average pace, heart rate, cadence, elevation gain, calories)  *)
(* is written only if the activity has that field: an activity lacking a   *)
(* field gets no line and no placeholder value for it.                     *)
(***************************************************************************)
C19_NoLineForMissingField ==
    Exported => \A f \in SummaryFields : HasLine(f[1]) => f[2] \in DOMAIN arg

\* ================== Further claims about the batch operations ===============

WeekKeys == {"week", "block", "workouts"}

TopLevelKeysPresent ==
    /\ required_fields \subseteq DOMAIN plan
    /\ "name" \in DOMAIN plan.plan
    /\ {"name", "date"} \subseteq DOMAIN plan.goal_event

WeekKeysPresent == \A i \in 1..Len(plan.weeks) : WeekKeys \subseteq DOMAIN plan.weeks[i]

(***************************************************************************)
(* C21: whenever the plan document lacks a required key, goal_event{name,  *)
(* date}, plan{name}, paces, or week, block or workouts of a week entry,   *)
(* load_plan ends the run with a fatal load error before any workout is    *)
(* compiled and before any upload, schedule or delete call.                *)
(***************************************************************************)
C21_MissingKeyIsFatal ==
    ~(TopLevelKeysPresent /\ WeekKeysPresent) => (pc \in {"load", "exit"} /\ calls = <<>>)

Batch == op \in {"upload_all", "update_week"}

\* compiling the workout raises (its duration or distance string does not parse)
IsMalformed(week_number, item) ==
    /\ ~IsRest(item.workout)
    /\ ~build_workout_from_yaml(plan.paces, item.workout, <<>>, week_number, item.day).ok

MalformedDays == SelectSeq(PlanDays(plan.weeks), LAMBDA e : IsMalformed(e.week, e))

\* the loop of the operation in progress has gone past a malformed day
PastMalformedDay ==
    IF op = "upload_all"
    THEN \E wi \in 1..Len(plan.weeks) : \E di \in 1..Len(plan.weeks[wi].workouts) :
            /\ IsMalformed(Get(plan.weeks[wi], "week", 0), plan.weeks[wi].workouts[di])
            /\ cur.week_index > wi \/ (cur.week_index = wi /\ cur.day_index > di)
    ELSE /\ "week_data" \in DOMAIN cur
         /\ \E di \in 1..Len(cur.week_data.workouts) :
                /\ IsMalformed(arg.week_number, cur.week_data.workouts[di])
                /\ cur.day_index > di

NoUploadOfMalformedDay ==
    \A i \in 1..Len(MalformedDays) : \A j \in 1..Len(Uploads) :
        Uploads[j].name # WorkoutName(MalformedDays[i].week, MalformedDays[i].day)

(***************************************************************************)
(* C22: when compiling a workout hits an unparseable distance or duration  *)
(* string, no document is returned, and in upload_all and update_week      *)
(* neither upload_workout nor schedule_workout is called for that day,     *)
(* while the remaining days of the week and the later weeks are still      *)
(* processed: the operation does not end early once the day is past.       *)
(***************************************************************************)
C22_MalformedDayIsSkipped ==
    Batch => /\ NoUploadOfMalformedDay
             /\ PastMalformedDay => pc # "raised"

Deletes == SelectSeq(calls, LAMBDA c : c.call = "delete_workout")
PlanWeekNumbers ==
    {plan.weeks[i].week : i \in {j \in 1..Len(plan.weeks) : "week" \in DOMAIN plan.weeks[j]}}

\* the name the compiler gives a workout of week m
IsNamedFor(workout_name, m) == \E i \in 1..7 : workout_name = WorkoutName(m, Chars(Weekdays[i]))

\* the fetched workouts a delete call was issued for
DeletedWorkouts ==
    {cur.workouts[i] : i \in {j \in 1..Len(cur.workouts) :
        \E k \in 1..Len(Deletes) : Deletes[k].id = Get(cur.workouts[j], "workoutId", 0)}}

(***************************************************************************)
(* C23: update_week(n) issues delete calls only for remote workouts of     *)
(* week n: for distinct week numbers n and m of the plan, no workout named *)
(* for week m is deleted by update_week(n).                                *)
(***************************************************************************)
C23_UpdateWeekDeletesOwnWeek ==
    (op = "update_week" /\ "workouts" \in DOMAIN cur /\ arg.week_number \in PlanWeekNumbers) =>
        \A w \in DeletedWorkouts : \A m \in PlanWeekNumbers \ {arg.week_number} :
            ~IsNamedFor(Get(w, "workoutName", <<>>), m)

Schedules == {i \in 1..Len(calls) : calls[i].call = "schedule_workout"}
RestDays == SelectSeq(PlanDays(plan.weeks), LAMBDA e : IsRest(e.workout))
UploadedCount == IF op = "upload_all" THEN cur.uploaded_workouts ELSE cur.uploaded_count
Counting == "uploaded_workouts" \in DOMAIN cur \/ "uploaded_count" \in DOMAIN cur

\* the plan day a workout name was compiled from
DayNamed(name) == {i \in 1..Len(PlanDays(plan.weeks)) : LET e == PlanDays(plan.weeks)[i] IN name = WorkoutName(e.week, e.day)}

\* call i schedules the workout whose upload, the call before it, returned its id
FollowsItsUpload(i) ==
    /\ i > 1
    /\ calls[i - 1].call = "upload_workout" /\ calls[i - 1].result = "id"
    /\ calls[i - 1].id = calls[i].id

\* call i carries the date of the day its workout was compiled from
HasWorkoutDate(i) ==
    \E d \in DayNamed(calls[i - 1].name) :
        LET e == PlanDays(plan.weeks)[d]
        IN  calls[i].date = strftime(get_workout_date(plan, e.week, e.day).v)

(***************************************************************************)
(* C24: in upload_all and update_week, schedule_workout is called for a    *)
(* workout only after upload_workout for it returned a result carrying a   *)
(* workout id, at most once per workout, with the date                     *)
(* get_workout_date(week, day) of that workout; rest days cause no upload  *)
(* and no schedule call; a workout whose scheduling fails is still counted *)
(* as uploaded and is not deleted.                                         *)
(***************************************************************************)
C24_ScheduleFollowsUpload ==
    Batch =>
        /\ \A i \in Schedules : FollowsItsUpload(i) /\ HasWorkoutDate(i)
        /\ \A i, j \in Schedules : calls[i].id = calls[j].id => i = j
        /\ \A r \in 1..Len(RestDays) : \A u \in 1..Len(Uploads) :
               Uploads[u].name # WorkoutName(RestDays[r].week, RestDays[r].day)
        /\ Counting => UploadedCount = Len(SelectSeq(Uploads, LAMBDA c : c.result \in {"id", "no_id"}))
        /\ \A i \in Schedules : \A k \in 1..Len(Deletes) : Deletes[k].id # calls[i].id

\* a run past a rest day in which a scheduling failed and one succeeded
C24_Witness ==
    /\ Batch /\ pc = "done" /\ RestDays # <<>>
    /\ \E i \in Schedules : calls[i].result = "500"
    /\ \E i \in Schedules : calls[i].result = "204"
    /\ UploadedCount >= 2

\* what is left of a library once the successful delete calls are carried out
RemainingOf(library) ==
    SelectSeq(library, LAMBDA w :
        \A k \in 1..Len(Deletes) :
            Deletes[k].result = "204" => Deletes[k].id # Get(w, "workoutId", 0))

\* the library the run started from
InitialLibrary == CHOOSE library \in Libraries : RemainingOf(library) = remote

\* the ids of the library's workouts whose name contains the plan marker
MarkedIds ==
    LET marked == SelectSeq(InitialLibrary, LAMBDA w :
                      Contains(Get(w, "workoutName", <<>>), Chars("NYC Marathon 2026")))
    IN  [i \in 1..Len(marked) |-> marked[i].workoutId]

DeletedIds == [k \in 1..Len(Deletes) |-> Deletes[k].id]

C27_UnknownWeekMakesNoCall ==
    (op = "update_week" /\ arg.week_number \notin PlanWeekNumbers) =>
        /\ pc = "returned" /\ ret = Ok(None)
        /\ calls = <<>>
        /\ remote \in Libraries


\* ---------------------------------------------------------------------------
\* the calls one builder has answered, in their order
Compilations == IF pc = "builder" THEN calls ELSE <<>>

\* the target objects of the leaf steps of all outputs, in the order the
\* steps were made
RECURSIVE TargetObjects(_)
TargetObjects(compilations) ==
    IF compilations = <<>> THEN <<>>
    ELSE Head(compilations).refs \o TargetObjects(Tail(compilations))

\* the output of a call as it reads now, each leaf's target read from the
\* object the leaf refers to
ReadNow(compilation) ==
    [j \in 1..Len(compilation.steps) |->
        [compilation.steps[j] EXCEPT !.targetType = cur.heap[compilation.refs[j]]]]

\* the leaves of the document the call returned
ReturnedLeaves(compilation) ==
    IF compilation.workout_json.ok THEN LeafSeq(StepsOf(compilation.workout_json.v)) ELSE <<>>

=============================================================================
